---- MODULE Spec2Model ----
(***************************************************************************)
(* The order-strategy execution core of binance-cli: the TWAP scheduler    *)
(* (src/src/advanced/twap.py), the Grid engine (src/src/advanced/grid.py)  *)
(* and the OCO coordinator (src/src/advanced/oco.py).                      *)
(*                                                                         *)
(* Quantities and prices are integers: a quantity is a number of quantity  *)
(* units, a price a number of price units.  The division and floor of the  *)
(* source are computed exactly (floor(a / b) is a \div b for b > 0).       *)
(*                                                                         *)
(* main.py builds one manager object per menu handler and the managers     *)
(* share no state, so a behaviour follows one manager: the variable        *)
(* manager names it.                                                       *)
(***************************************************************************)
EXTENDS Integers, Sequences, FiniteSets, TLC

VARIABLES
    manager,        \* which manager object this behaviour exercises
    calc,           \* a call of calculate_order_chunks or validate_quantity:
                    \* its arguments and its result
    activeTwap,     \* TWAPOrderManager.active_twap_orders: id -> record
    twapStopFlags,  \* TWAPOrderManager.stop_flags: id -> BOOLEAN
    twapTask,       \* the locals of the _execute_twap thread
    twapGateway,    \* the chunk orders the gateway accepted, in order
    twapEvents,     \* the events delivered to the callback, in order
    twapCall,       \* the caller's last call of the TWAP manager
    ocoCall,        \* the caller's last call of place_oco_order and its result
    ocoLog,         \* the gateway calls that call of place_oco_order made, in order
    activeGrids,    \* GridOrderManager.active_grids: id -> record
    gridStopFlags,  \* GridOrderManager.stop_flags: id -> BOOLEAN
    gridTask,       \* the locals of the _monitor_grid thread
    exchange,       \* the grid orders the gateway accepted: order id -> order
    gridUpdate,     \* the payload of the last UPDATE event delivered to the callback
    gridCall        \* the caller's last call of the Grid manager

twapVars == <<activeTwap, twapStopFlags, twapTask, twapGateway, twapEvents, twapCall>>
ocoVars == <<ocoCall, ocoLog>>
gridVars == <<activeGrids, gridStopFlags, gridTask, exchange, gridUpdate, gridCall>>
vars == <<manager, calc, activeTwap, twapStopFlags, twapTask, twapGateway,
          twapEvents, twapCall, ocoCall, ocoLog, activeGrids, gridStopFlags,
          gridTask, exchange, gridUpdate, gridCall>>

----------------------------------------------------------------------------
(* Bounds of the model *)

\* the largest quantity a caller passes, in quantity units
MaxTotal == 5
\* the largest num_orders a caller passes
MaxNumOrders == 3
\* the largest total_quantity and num_orders calculate_order_chunks is applied to
MaxCalcTotal == 10
MaxCalcOrders == 5
\* the largest order_quantity a caller passes to place_grid_orders
MaxOrderQuantity == 3

\* the symbol rule sets of the exchange: LOT_SIZE minQty, maxQty, stepSize
RuleSets ==
    { [minQty |-> 1, maxQty |-> 20, stepSize |-> 1],
      [minQty |-> 2, maxQty |-> 20, stepSize |-> 1],
      [minQty |-> 3, maxQty |-> 20, stepSize |-> 2] }

\* the symbols a caller passes; the exchange lists the first as TRADING
TradingSymbols == {"BTCUSDT"}
Symbols == {"BTCUSDT", "NOPE"}

Max(a, b) == IF a >= b THEN a ELSE b
Min(a, b) == IF a <= b THEN a ELSE b

RECURSIVE SumSeq(_)
SumSeq(s) == IF s = <<>> THEN 0 ELSE Head(s) + SumSeq(Tail(s))

----------------------------------------------------------------------------
(* Quantity normalizer: twap.py validate_quantity, calculate_order_chunks *)

\* validate_symbol: the symbol is listed with status TRADING
ValidateSymbol(symbol) == symbol \in TradingSymbols

\* twap.py validate_quantity: range check, then (quantity - min_qty) % step_size,
\* on quantities and rules in whole units, which floats hold exactly
ValidateQuantity(rules, quantity) ==
    /\ ~(quantity < rules.minQty \/ quantity > rules.maxQty)
    /\ (quantity - rules.minQty) % rules.stepSize = 0

\* math.floor(x / step_size) * step_size, x = num / den
FloorToStep(num, den, step) == (num \div (den * step)) * step

\* the body of the for loop: one of the first num_orders - 1 chunks
BaseChunk(total, numOrders, rules) ==
    Max(FloorToStep(total, numOrders, rules.stepSize), rules.minQty)

\* the chunks list after the for loop: num_orders - 1 equal chunks
FirstChunks(total, numOrders, rules) ==
    [i \in 1..(numOrders - 1) |-> BaseChunk(total, numOrders, rules)]

\* calculate_order_chunks, lines 134-157
CalculateOrderChunks(total, numOrders, rules) ==
    LET chunks    == FirstChunks(total, numOrders, rules)
        remaining == total - SumSeq(chunks)
        lastChunk == FloorToStep(remaining, 1, rules.stepSize)
    IN  IF lastChunk >= rules.minQty
        THEN Append(chunks, lastChunk)
        ELSE IF chunks # <<>>
             THEN [chunks EXCEPT ![Len(chunks)] = chunks[Len(chunks)] + remaining]
             ELSE chunks

----------------------------------------------------------------------------
(* TWAP scheduler: twap.py place_twap_order, _execute_twap, stop_twap_order *)

\* the ids a caller passes to stop and getStatus; start returns the first
TwapId == "TWAP_BTCUSDT_1"
TwapIds == {TwapId, "TWAP_BTCUSDT_0"}

Sides == {"BUY", "SELL", "HOLD"}
OrderTypes == {"MARKET", "LIMIT", "STOP"}
\* a price the gateway reports; 0 stands for a failed fetch (None)
Prices == {0, 100, 102}
\* the reference price the gateway reports at the start of a run, 0 as above
InitialPrices == {0, 100}
\* max_price_deviation in percent (1 is 0.01); 0 switches the monitor off
Deviations == {0, 1}
\* duration_minutes a caller passes
Durations == {0, 2}
\* the price of every fill the gateway reports
FillPrice == 100

NoTask == [pc |-> "none", i |-> 0, initialPrice |-> 0, fillQty |-> 0,
           fillValue |-> 0, stopSeen |-> FALSE]
NoCall == [op |-> "none"]

\* the checks of place_twap_order without the one on duration_minutes
TwapInputsValidAnyDuration(a) ==
    /\ ValidateSymbol(a.symbol)
    /\ a.side \in {"BUY", "SELL"}
    /\ ValidateQuantity(a.rules, a.total)
    /\ a.orderType \in {"MARKET", "LIMIT"}
    /\ ~(a.orderType = "LIMIT" /\ a.limitPrice = 0)

\* place_twap_order, lines 187-203: the checks that raise ValueError
TwapInputsValid(a) ==
    /\ ValidateSymbol(a.symbol)
    /\ a.side \in {"BUY", "SELL"}
    /\ ValidateQuantity(a.rules, a.total)
    /\ ~(a.duration <= 0)
    /\ a.orderType \in {"MARKET", "LIMIT"}
    /\ ~(a.orderType = "LIMIT" /\ a.limitPrice = 0)

\* place_twap_order, lines 206-208: num_orders when the caller gave none
TwapNumOrders(a) ==
    IF a.numOrders = 0 THEN Max(2, Min(20, a.duration)) ELSE a.numOrders

\* place_twap_order, lines 211-213
TwapChunks(a) == CalculateOrderChunks(a.total, TwapNumOrders(a), a.rules)

\* place_twap_order, lines 222-236: the record of a new run
NewTwapRecord(a) ==
    [symbol |-> a.symbol, side |-> a.side, total_quantity |-> a.total,
     chunks |-> TwapChunks(a), executed_quantity |-> 0,
     order_type |-> a.orderType, limit_price |-> a.limitPrice,
     max_price_deviation |-> a.maxDev,
     interval_seconds |-> (a.duration * 60) \div Len(TwapChunks(a)),
     orders |-> <<>>, status |-> "ACTIVE", callback |-> a.callback,
     twap_price |-> 0]

\* place_twap_order: validation, then the record, the stop flag and the thread
PlaceTwapOrder(a) ==
    /\ manager \in {"none", "twap"}
    /\ DOMAIN activeTwap = {}
    /\ twapCall.op # "stopping"
    /\ manager' = "twap"
    /\ IF TwapInputsValid(a) /\ TwapChunks(a) # <<>>
       THEN /\ activeTwap' = (TwapId :> NewTwapRecord(a)) @@ activeTwap
            /\ twapStopFlags' = (TwapId :> FALSE) @@ twapStopFlags
            /\ twapTask' = [NoTask EXCEPT !.pc = "init"]
            /\ twapCall' = [op |-> "start", nth |-> 1, args |-> a, result |-> TwapId]
       ELSE /\ twapCall' = [op |-> "start", nth |-> 1, args |-> a, result |-> "None"]
            /\ UNCHANGED <<activeTwap, twapStopFlags, twapTask>>
    /\ UNCHANGED <<calc, ocoVars, gridVars, twapGateway, twapEvents>>

TwapArgs ==
    [symbol : Symbols, side : Sides, total : 0..MaxTotal, duration : Durations,
     numOrders : 0..MaxNumOrders, orderType : OrderTypes, limitPrice : {0, 100},
     maxDev : Deviations, callback : BOOLEAN, rules : RuleSets]

\* the calls whose runs the scheduling specifications follow
TwapRunArgs ==
    [symbol : TradingSymbols, side : {"BUY"}, total : 1..MaxTotal, duration : {2},
     numOrders : 1..MaxNumOrders, orderType : {"MARKET", "LIMIT"}, limitPrice : {100},
     maxDev : Deviations, callback : BOOLEAN, rules : RuleSets]

\* main.py builds the manager, then calls place_twap_order once
StartTWAP == manager = "none" /\ \E a \in TwapArgs : PlaceTwapOrder(a)
StartTwapRun ==
    /\ DOMAIN activeTwap = {}
    /\ \E a \in TwapRunArgs : PlaceTwapOrder(a)

\* the number of start calls a caller makes on one manager
MaxStarts == 2
\* int(time.time()) at a start call: the first call of a manager is at second 1
Seconds == {1, 2}
\* place_twap_order, line 219: f"TWAP_{symbol}_{int(time.time())}" on BTCUSDT
TwapIdAt(now) == IF now = 1 THEN TwapId ELSE "TWAP_BTCUSDT_2"

\* place_twap_order called again on the manager at epoch second now: the
\* record and the stop flag are stored under the id of that second, and a
\* thread is started on it.  twapTask stays with the thread of the first run
PlaceTwapOrderAgain(a, now) ==
    /\ manager = "twap"
    /\ twapCall.op = "start" /\ twapCall.nth < MaxStarts
    /\ IF TwapInputsValid(a) /\ TwapChunks(a) # <<>>
       THEN /\ activeTwap' = (TwapIdAt(now) :> NewTwapRecord(a)) @@ activeTwap
            /\ twapStopFlags' = (TwapIdAt(now) :> FALSE) @@ twapStopFlags
            /\ twapCall' = [op |-> "start", nth |-> twapCall.nth + 1, args |-> a,
                            result |-> TwapIdAt(now)]
       ELSE /\ twapCall' = [op |-> "start", nth |-> twapCall.nth + 1, args |-> a,
                            result |-> "None"]
            /\ UNCHANGED <<activeTwap, twapStopFlags>>
    /\ UNCHANGED <<manager, calc, ocoVars, gridVars, twapTask, twapGateway, twapEvents>>

Run == activeTwap[TwapId]
\* callback(twap_id, kind, payload): n is the chunk_number of CHUNK_COMPLETED
\* and PRICE_DEVIATION, the twap_price of COMPLETED
Emit(kind, n) ==
    IF Run.callback THEN Append(twapEvents, <<kind, n>>) ELSE twapEvents

\* a handler of the failed reference price that marks every run of the manager
TwapInitMarksAll(price) ==
    /\ twapTask.pc = "init"
    /\ IF price = 0
       THEN /\ activeTwap' = [id \in DOMAIN activeTwap |->
                                 [activeTwap[id] EXCEPT !.status = "ERROR"]]
            /\ twapTask' = [twapTask EXCEPT !.pc = "done"]
       ELSE /\ twapTask' = [twapTask EXCEPT !.pc = "check", !.i = 1,
                                            !.initialPrice = price]
            /\ UNCHANGED activeTwap
    /\ UNCHANGED <<manager, calc, ocoVars, gridVars, twapStopFlags, twapGateway, twapEvents, twapCall>>

\* _execute_twap, lines 266-282 and 365-368: the reference price
TwapInit(price) ==
    /\ twapTask.pc = "init"
    /\ IF price = 0
       THEN /\ activeTwap' = [activeTwap EXCEPT ![TwapId].status = "ERROR"]
            /\ twapTask' = [twapTask EXCEPT !.pc = "done"]
       ELSE /\ twapTask' = [twapTask EXCEPT !.pc = "check", !.i = 1,
                                            !.initialPrice = price]
            /\ UNCHANGED activeTwap
    /\ UNCHANGED <<manager, calc, ocoVars, gridVars, twapStopFlags, twapGateway, twapEvents, twapCall>>

\* a loop head that does not look at the stop flag
TwapCheckBlind ==
    /\ twapTask.pc = "check"
    /\ twapTask' =
          IF twapTask.i > Len(Run.chunks)
          THEN [twapTask EXCEPT !.pc = "finish"]
          ELSE [twapTask EXCEPT !.pc = "price"]
    /\ UNCHANGED <<manager, calc, ocoVars, gridVars, activeTwap, twapStopFlags, twapGateway,
                   twapEvents, twapCall>>

\* _execute_twap, lines 284-287: the loop head and the stop flag
TwapCheck ==
    /\ twapTask.pc = "check"
    /\ twapTask' =
          IF twapTask.i > Len(Run.chunks)
          THEN [twapTask EXCEPT !.pc = "finish"]
          ELSE IF twapStopFlags[TwapId]
               THEN [twapTask EXCEPT !.pc = "finish", !.stopSeen = TRUE]
               ELSE [twapTask EXCEPT !.pc = "price"]
    /\ UNCHANGED <<manager, calc, ocoVars, gridVars, activeTwap, twapStopFlags, twapGateway,
                   twapEvents, twapCall>>

\* lines 297-299: price_change > max_deviation, max_deviation in percent
Deviates(current, initial, maxDev) ==
    /\ maxDev > 0
    /\ (IF current >= initial THEN current - initial ELSE initial - current) * 100
          > maxDev * initial

\* _execute_twap, lines 290-306: the current price and the deviation monitor
TwapPrice(price) ==
    /\ twapTask.pc = "price"
    /\ IF price = 0
       THEN /\ twapTask' = [twapTask EXCEPT !.pc = "check", !.i = @ + 1]
            /\ UNCHANGED twapEvents
       ELSE /\ twapTask' = [twapTask EXCEPT !.pc = "place"]
            /\ twapEvents' =
                  IF Deviates(price, twapTask.initialPrice, Run.max_price_deviation)
                  THEN Emit("PRICE_DEVIATION", twapTask.i)
                  ELSE twapEvents
    /\ UNCHANGED <<manager, calc, ocoVars, gridVars, activeTwap, twapStopFlags, twapGateway, twapCall>>

\* lines 341-342: sleep unless this was the last chunk
AfterChunk(task) ==
    IF task.i < Len(Run.chunks)
    THEN [task EXCEPT !.pc = "sleep"]
    ELSE [task EXCEPT !.pc = "check", !.i = @ + 1]

\* the answers of the gateway to a chunk order: a rejection or fault ("fail"),
\* an acknowledgement with executedQty 0 and no fills ("ack"), a filled order
\* with executedQty and fills of the whole chunk ("fills")
PlaceOutcomes == {"fail", "ack", "fills"}

\* a loop that a failed placement ends
TwapPlaceOrBreak(outcome) ==
    /\ twapTask.pc = "place"
    /\ LET qty == Run.chunks[twapTask.i]
           executed == IF outcome = "fills" THEN qty ELSE 0
           filled == IF Run.order_type = "MARKET" THEN executed ELSE 0
       IN  IF outcome # "fail"
           THEN /\ twapGateway' = Append(twapGateway, qty)
                /\ activeTwap' =
                      [activeTwap EXCEPT
                          ![TwapId].orders = Append(@, [qty |-> qty, executedQty |-> executed]),
                          ![TwapId].executed_quantity = @ + executed]
                /\ twapTask' = AfterChunk([twapTask EXCEPT !.fillQty = @ + filled,
                                                            !.fillValue = @ + filled * FillPrice])
                /\ twapEvents' = Emit("CHUNK_COMPLETED", twapTask.i)
           ELSE /\ twapTask' = [twapTask EXCEPT !.pc = "finish"]
                /\ UNCHANGED <<twapGateway, activeTwap, twapEvents>>
    /\ UNCHANGED <<manager, calc, ocoVars, gridVars, twapStopFlags, twapCall>>

\* _execute_twap, lines 308-342 with _place_market_chunk / _place_limit_chunk
TwapPlace(outcome) ==
    /\ twapTask.pc = "place"
    /\ LET qty == Run.chunks[twapTask.i]
           executed == IF outcome = "fills" THEN qty ELSE 0
           filled == IF Run.order_type = "MARKET" THEN executed ELSE 0
       IN  IF outcome # "fail"
           THEN /\ twapGateway' = Append(twapGateway, qty)
                /\ activeTwap' =
                      [activeTwap EXCEPT
                          ![TwapId].orders = Append(@, [qty |-> qty, executedQty |-> executed]),
                          ![TwapId].executed_quantity = @ + executed]
                /\ twapTask' = AfterChunk([twapTask EXCEPT !.fillQty = @ + filled,
                                                            !.fillValue = @ + filled * FillPrice])
                /\ twapEvents' = Emit("CHUNK_COMPLETED", twapTask.i)
           ELSE /\ twapTask' = AfterChunk(twapTask)
                /\ UNCHANGED <<twapGateway, activeTwap, twapEvents>>
    /\ UNCHANGED <<manager, calc, ocoVars, gridVars, twapStopFlags, twapCall>>

\* a loop that goes from the interval wait straight to the next chunk
TwapSleepThrough ==
    /\ twapTask.pc = "sleep"
    /\ twapTask' = [twapTask EXCEPT !.pc = "price", !.i = @ + 1]
    /\ UNCHANGED <<manager, calc, ocoVars, gridVars, activeTwap, twapStopFlags, twapGateway,
                   twapEvents, twapCall>>

\* _execute_twap, line 342: time.sleep(interval)
TwapSleep ==
    /\ twapTask.pc = "sleep"
    /\ twapTask' = [twapTask EXCEPT !.pc = "check", !.i = @ + 1]
    /\ UNCHANGED <<manager, calc, ocoVars, gridVars, activeTwap, twapStopFlags, twapGateway,
                   twapEvents, twapCall>>

\* a loop that leaves the status as it found it
LoopExitStatusActive(stopSeen) == "ACTIVE"

\* the status the loop writes after it: line 349
LoopExitStatus(stopSeen) == "COMPLETED"

\* _execute_twap, lines 348-363: after the loop
TwapFinish ==
    /\ twapTask.pc = "finish"
    /\ activeTwap' =
          [activeTwap EXCEPT
              ![TwapId].status = LoopExitStatus(twapTask.stopSeen),
              ![TwapId].twap_price =
                  IF twapTask.fillQty > 0
                  THEN twapTask.fillValue \div twapTask.fillQty ELSE @]
    /\ twapEvents' =
          IF twapTask.fillQty > 0
          THEN Emit("COMPLETED", twapTask.fillValue \div twapTask.fillQty)
          ELSE twapEvents
    /\ twapTask' = [twapTask EXCEPT !.pc = "done"]
    /\ UNCHANGED <<manager, calc, ocoVars, gridVars, twapStopFlags, twapGateway, twapCall>>

\* a stop that sets the flag before it looks the run up
StopTwapFlagEager(id) ==
    /\ manager = "twap"
    /\ twapCall.op # "stopping"
    /\ twapStopFlags' = (id :> TRUE) @@ twapStopFlags
    /\ twapCall' = IF id \notin DOMAIN activeTwap
                   THEN [op |-> "stop", id |-> id, result |-> FALSE]
                   ELSE [op |-> "stopping", id |-> id]
    /\ UNCHANGED <<manager, calc, ocoVars, gridVars, activeTwap, twapTask, twapGateway, twapEvents>>

\* stop_twap_order, lines 412-416: the lookup and the stop flag
StopTwapFlag(id) ==
    /\ manager = "twap"
    /\ twapCall.op # "stopping"
    /\ IF id \notin DOMAIN activeTwap
       THEN /\ twapCall' = [op |-> "stop", id |-> id, result |-> FALSE]
            /\ UNCHANGED twapStopFlags
       ELSE /\ twapStopFlags' = [twapStopFlags EXCEPT ![id] = TRUE]
            /\ twapCall' = [op |-> "stopping", id |-> id]
    /\ UNCHANGED <<manager, calc, ocoVars, gridVars, activeTwap, twapTask, twapGateway, twapEvents>>

\* a stop that leaves the run ACTIVE
StopStatusActive == "ACTIVE"

\* the status stop_twap_order writes: line 417
StopStatus == "STOPPED"

\* stop_twap_order, lines 417-420: the status and the result
StopTwapStatus ==
    /\ twapCall.op = "stopping"
    /\ activeTwap' = [activeTwap EXCEPT ![twapCall.id].status = StopStatus]
    /\ twapCall' = [op |-> "stop", id |-> twapCall.id, result |-> TRUE]
    /\ UNCHANGED <<manager, calc, ocoVars, gridVars, twapStopFlags, twapTask, twapGateway, twapEvents>>

\* get_twap_status: a copy of the record without the callback, or None
GetTwapStatus(id) ==
    /\ manager = "twap"
    /\ twapCall.op # "stopping"
    /\ twapCall' =
          IF id \in DOMAIN activeTwap
          THEN [op |-> "status", id |-> id,
                result |-> <<[f \in DOMAIN activeTwap[id] \ {"callback"} |-> activeTwap[id][f]]>>]
          ELSE [op |-> "status", id |-> id, result |-> <<>>]
    /\ UNCHANGED <<manager, calc, ocoVars, gridVars, activeTwap, twapStopFlags, twapTask,
                   twapGateway, twapEvents>>

\* the steps of the _execute_twap thread
TwapLoop ==
    \/ \E p \in InitialPrices : TwapInit(p)
    \/ TwapCheck
    \/ \E p \in Prices : TwapPrice(p)
    \/ \E o \in PlaceOutcomes : TwapPlace(o)
    \/ TwapSleep
    \/ TwapFinish

\* the caller stops the run it started
StopTwap ==
    \/ StopTwapFlag(TwapId)
    \/ StopTwapStatus

TwapNext ==
    \/ StartTwapRun
    \/ TwapLoop
    \/ StopTwap

----------------------------------------------------------------------------
(* OCO coordinator: oco.py validate_quantity, validate_price, place_oco_order *)

\* the PRICE_FILTER of the symbol: minPrice, maxPrice, tickSize
----------------------------------------------------------------------------
(* validate_quantity on decimal fractions: twap.py 52-84 in binary floating
   point, oco.py 48-86 in Decimal.  Quantities and rules are tenths of a unit.
   A float is its value in multiples of 2^-(MantissaBits + 3), the spacing of
   the floats between 1/16 and 1/8.  The significand is cut from the 53 bits
   of a Python float to 13: the expansions of the tenths repeat with period 4
   bits, so a significand of 4j + 1 bits rounds them the way 53 bits do *)

\* the largest quantity validate_quantity is applied to, in tenths
MaxTenths == 12
MantissaBits == 13
FloatOne == 2^(MantissaBits + 3)

\* LOT_SIZE filters in tenths: minQty, maxQty, stepSize
TenthsRuleSets ==
    [minQty : {1, 2}, maxQty : {10}, stepSize : {1, 2, 5}]

\* num / den rounded to the nearest integer, ties to even
RoundHalfEven(num, den) ==
    LET f == num \div den
        r == num % den
    IN  IF 2 * r < den THEN f
        ELSE IF 2 * r > den THEN f + 1
        ELSE IF f % 2 = 0 THEN f ELSE f + 1

\* the spacing of the floats around num / den, num / den >= 2^(MantissaBits - 1)
Quantum(num, den) ==
    CHOOSE q \in {2^j : j \in 0..8} :
        /\ 2^(MantissaBits - 1) * q * den <= num
        /\ num < 2^MantissaBits * q * den

\* float(s) for the decimal string s of k tenths: the nearest float
FloatOfTenths(k) ==
    IF k = 0 THEN 0
    ELSE LET q == Quantum(k * FloatOne, 10)
         IN  RoundHalfEven(k * FloatOne, 10 * q) * q

\* x - y on floats x >= y: the difference rounded to the significand
FloatSub(x, y) ==
    IF x - y < 2^MantissaBits THEN x - y
    ELSE LET q == Quantum(x - y, 1)
         IN  RoundHalfEven(x - y, q) * q

\* Decimal(str(x)): str gives the shortest decimal that reads back as x
DecimalOfFloat(x) == CHOOSE k \in 0..(10 * MaxTenths) : FloatOfTenths(k) = x

\* the lookup of the LOT_SIZE filter: lines 63-67 of both files
RulesFound(symbol, fetch) == fetch = "ok" /\ symbol \in TradingSymbols

\* twap.py validate_quantity, lines 63-84
TwapValidateQuantity(symbol, fetch, rules, k) ==
    LET quantity  == FloatOfTenths(k)
        min_qty   == FloatOfTenths(rules.minQty)
        max_qty   == FloatOfTenths(rules.maxQty)
        step_size == FloatOfTenths(rules.stepSize)
    IN  /\ RulesFound(symbol, fetch)
        /\ ~(quantity < min_qty \/ quantity > max_qty)
        /\ FloatSub(quantity, min_qty) % step_size = 0

\* oco.py validate_quantity, lines 59-86
OcoDecimalValidateQuantity(symbol, fetch, rules, k) ==
    LET quantity  == FloatOfTenths(k)
        min_qty   == FloatOfTenths(rules.minQty)
        max_qty   == FloatOfTenths(rules.maxQty)
        step_size == FloatOfTenths(rules.stepSize)
    IN  /\ RulesFound(symbol, fetch)
        /\ ~(quantity < min_qty \/ quantity > max_qty)
        /\ (DecimalOfFloat(step_size) > 0
              => (DecimalOfFloat(quantity) - DecimalOfFloat(min_qty))
                     % DecimalOfFloat(step_size) = 0)

----------------------------------------------------------------------------
(* Float arithmetic of calculate_grid_levels, grid.py 124-142.  A float is a
   record of a significand m and an exponent e with the value m * 2^e, m = 0
   or 2^(MantissaBits - 1) <= m < 2^MantissaBits.  Every operation rounds its
   exact result to the nearest float, ties to even *)

\* the float nearest to (num / den) * 2^e
RECURSIVE RoundRat(_, _, _)
RoundRat(num, den, e) ==
    IF num = 0 THEN [m |-> 0, e |-> 0]
    ELSE IF num < 2^(MantissaBits - 1) * den THEN RoundRat(2 * num, den, e - 1)
    ELSE IF num >= 2^MantissaBits * den THEN RoundRat(num, 2 * den, e + 1)
    ELSE LET m == RoundHalfEven(num, den)
         IN  IF m = 2^MantissaBits
             THEN [m |-> 2^(MantissaBits - 1), e |-> e + 1]
             ELSE [m |-> m, e |-> e]

\* float(n) of an int and float(s) of the decimal string of n / d
FloatInt(n) == RoundRat(n, 1, 0)
FloatDecimal(n, d) == RoundRat(n, d, 0)
FloatMul(a, b) == RoundRat(a.m * b.m, 1, a.e + b.e)
FloatDiv(a, b) == RoundRat(a.m, b.m, a.e - b.e)
FloatAdd(a, b) ==
    LET e == Min(a.e, b.e)
    IN  RoundRat(a.m * 2^(a.e - e) + b.m * 2^(b.e - e), 1, e)
\* a - b for a >= b
FloatMinus(a, b) ==
    LET e == Min(a.e, b.e)
    IN  RoundRat(a.m * 2^(a.e - e) - b.m * 2^(b.e - e), 1, e)
FloatLeq(a, b) ==
    LET e == Min(a.e, b.e)
    IN  a.m * 2^(a.e - e) <= b.m * 2^(b.e - e)
\* math.floor(a) as an int
FloatFloor(a) ==
    IF a.e >= 0 THEN a.m * 2^a.e
    ELSE IF -a.e > MantissaBits THEN 0
    ELSE a.m \div 2^(-a.e)
\* sorted(S) of a set of floats
RECURSIVE SortFloats(_)
SortFloats(S) ==
    IF S = {} THEN <<>>
    ELSE LET least == CHOOSE x \in S : \A y \in S : FloatLeq(x, y)
         IN  <<least>> \o SortFloats(S \ {least})

\* calculate_grid_levels, lines 124-142, on floats
CalculateGridLevelsFloat(center_price, price_range_percent, grid_count, tick_size) ==
    LET price_range == FloatMul(center_price, price_range_percent)
        min_price   == FloatMinus(center_price, price_range)
        max_price   == FloatAdd(center_price, price_range)
        price_step  == FloatDiv(FloatMinus(max_price, min_price), FloatInt(grid_count - 1))
        Level(i) ==
            LET price == FloatAdd(min_price, FloatMul(FloatInt(i), price_step))
            IN  FloatMul(FloatInt(FloatFloor(FloatDiv(price, tick_size))), tick_size)
    IN  IF grid_count <= 1
        THEN <<center_price>>
        ELSE SortFloats({Level(i) : i \in 0..(grid_count - 1)})

\* _execute_twap, twap.py 297-299, on floats:
\* max_deviation > 0 and abs(current_price - initial_price) / initial_price > max_deviation
DeviatesFloat(current_price, initial_price, max_deviation) ==
    LET distance == IF FloatLeq(initial_price, current_price)
                    THEN FloatMinus(current_price, initial_price)
                    ELSE FloatMinus(initial_price, current_price)
        price_change == FloatDiv(distance, initial_price)
    IN  /\ max_deviation.m > 0
        /\ ~FloatLeq(price_change, max_deviation)

PriceRules == [minPrice |-> 5, maxPrice |-> 1000, tickSize |-> 5]
\* the prices a caller passes and the current price the gateway reports;
\* 0 as a current price stands for a failed fetch (None)
OcoPrices == {0, 95, 100, 105}
\* the answers of the gateway to an order placement: the order, a
\* BinanceAPIException / BinanceOrderException ("api"), any other fault ("fault")
CreateOutcomes == {"ok", "api", "fault"}

\* oco.py validate_quantity: range check, then the Decimal remainder
OcoValidateQuantity(rules, quantity) ==
    /\ ~(quantity < rules.minQty \/ quantity > rules.maxQty)
    /\ (rules.stepSize > 0 => (quantity - rules.minQty) % rules.stepSize = 0)

\* oco.py validate_price
ValidatePrice(rules, price) ==
    /\ ~(price < rules.minPrice \/ price > rules.maxPrice)
    /\ (rules.tickSize > 0 => (price - rules.minPrice) % rules.tickSize = 0)

\* place_oco_order, lines 167-183: the checks on the arguments
OcoInputsValid(a) ==
    /\ ValidateSymbol(a.symbol)
    /\ a.side \in {"BUY", "SELL"}
    /\ OcoValidateQuantity(a.rules, a.quantity)
    /\ ValidatePrice(PriceRules, a.takeProfit)
    /\ ValidatePrice(PriceRules, a.stopLoss)
    /\ ~(a.quantity <= 0)

\* the ordering check with equality let through
OcoPricesOrderedLoose(a, current) ==
    /\ current # 0
    /\ IF a.side = "BUY"
       THEN ~(a.takeProfit > current) /\ ~(a.stopLoss < current)
       ELSE ~(a.takeProfit < current) /\ ~(a.stopLoss > current)

\* place_oco_order, lines 186-202: the current price and the side's ordering
OcoPricesOrdered(a, current) ==
    /\ current # 0
    /\ IF a.side = "BUY"
       THEN ~(a.takeProfit >= current) /\ ~(a.stopLoss <= current)
       ELSE ~(a.takeProfit <= current) /\ ~(a.stopLoss >= current)

\* place_oco_order, lines 242-253: the handler that cancels the take-profit
\* order is the one of BinanceAPIException and BinanceOrderException
CancelsTakeProfit(slOutcome) == slOutcome = "api"

\* a placement that sends the stop-loss order first
OcoGatewayCallsStopFirst(a, tpOutcome, slOutcome, cancelOk) ==
    LET tp == [call |-> "create", type |-> "LIMIT", price |-> a.takeProfit,
               reduceOnly |-> TRUE, answer |-> tpOutcome]
        sl == [call |-> "create", type |-> "STOP_MARKET", price |-> a.stopLoss,
               reduceOnly |-> TRUE, answer |-> slOutcome]
    IN  IF slOutcome # "ok" THEN <<sl>> ELSE <<sl, tp>>

\* the gateway calls of place_oco_order, lines 208-253
OcoGatewayCalls(a, tpOutcome, slOutcome, cancelOk) ==
    LET tp == [call |-> "create", type |-> "LIMIT", price |-> a.takeProfit,
               reduceOnly |-> TRUE, answer |-> tpOutcome]
        sl == [call |-> "create", type |-> "STOP_MARKET", price |-> a.stopLoss,
               reduceOnly |-> TRUE, answer |-> slOutcome]
        cancel == [call |-> "cancel", type |-> "LIMIT", price |-> a.takeProfit,
                   reduceOnly |-> TRUE, answer |-> IF cancelOk THEN "ok" ELSE "api"]
    IN  IF tpOutcome # "ok" THEN <<tp>>
        ELSE IF slOutcome = "ok" THEN <<tp, sl>>
        ELSE IF CancelsTakeProfit(slOutcome) THEN <<tp, sl, cancel>>
        ELSE <<tp, sl>>

\* the orders the gateway holds after the calls of place_oco_order: the
\* take-profit order first, the stop-loss order second
OcoGatewayOrders(a, tpOutcome, slOutcome, cancelOk) ==
    LET tp == [side |-> a.side, price |-> a.takeProfit, updateTime |-> 0,
               status |-> IF slOutcome # "ok" /\ CancelsTakeProfit(slOutcome) /\ cancelOk
                          THEN "CANCELED" ELSE "NEW"]
        sl == [side |-> a.side, price |-> a.stopLoss, updateTime |-> 0, status |-> "NEW"]
    IN  IF tpOutcome # "ok" THEN <<>>
        ELSE IF slOutcome = "ok" THEN <<tp, sl>>
        ELSE <<tp>>

\* place_oco_order: validation, the two placements, the rollback, the result
PlaceOcoOrder(a, current, tpOutcome, slOutcome, cancelOk) ==
    /\ manager \in {"none", "oco"}
    /\ manager' = "oco"
    /\ IF OcoInputsValid(a) /\ OcoPricesOrdered(a, current)
       THEN /\ ocoLog' = OcoGatewayCalls(a, tpOutcome, slOutcome, cancelOk)
            /\ exchange' = OcoGatewayOrders(a, tpOutcome, slOutcome, cancelOk)
            /\ ocoCall' = [op |-> "place", args |-> a, current |-> current,
                           result |-> IF tpOutcome = "ok" /\ slOutcome = "ok"
                                      THEN "PAIR" ELSE "None"]
       ELSE /\ ocoLog' = <<>>
            /\ exchange' = <<>>
            /\ ocoCall' = [op |-> "place", args |-> a, current |-> current,
                           result |-> "None"]
    /\ UNCHANGED <<calc, twapVars, activeGrids, gridStopFlags, gridTask, gridUpdate, gridCall>>

\* the exchange executes a resting order of the pair
GatewayFillsOco(id) ==
    /\ manager = "oco"
    /\ id \in 1..Len(exchange)
    /\ exchange[id].status = "NEW"
    /\ exchange' = [exchange EXCEPT ![id].status = "FILLED"]
    /\ UNCHANGED <<manager, calc, twapVars, ocoVars, activeGrids, gridStopFlags, gridTask,
                   gridUpdate, gridCall>>

\* the answer of the gateway to futures_cancel_order: a fault of the call, a
\* rejection of an order that is no longer resting, or the cancellation
CancelAnswer(status, fault) ==
    IF fault THEN "fault"
    ELSE IF status \in {"NEW", "PARTIALLY_FILLED"} THEN "ok"
    ELSE "api"

\* a joint cancel that gives up after a failed take-profit cancel
CancelOcoOrderGivesUp ==
    /\ ocoCall.op = "cancel"
    /\ LET tp == CancelAnswer(exchange[1].status, ocoCall.tpFault)
           sl == CancelAnswer(exchange[2].status, ocoCall.slFault)
       IN  IF tp = "ok"
           THEN /\ ocoLog' = <<[call |-> "cancel", orderId |-> 1, answer |-> tp],
                               [call |-> "cancel", orderId |-> 2, answer |-> sl]>>
                /\ exchange' =
                      [exchange EXCEPT
                          ![1].status = "CANCELED",
                          ![2].status = IF sl = "ok" THEN "CANCELED" ELSE @]
                /\ ocoCall' = [ocoCall EXCEPT !.op = "cancelled", !.result = (sl = "ok")]
           ELSE /\ ocoLog' = <<[call |-> "cancel", orderId |-> 1, answer |-> tp]>>
                /\ exchange' = exchange
                /\ ocoCall' = [ocoCall EXCEPT !.op = "cancelled", !.result = FALSE]
    /\ UNCHANGED <<manager, calc, twapVars, activeGrids, gridStopFlags, gridTask,
                   gridUpdate, gridCall>>

\* cancel_oco_order, lines 275-304: the cancel of the take-profit order, the
\* cancel of the stop-loss order, each in its own try block, and the result
CancelOcoOrder ==
    /\ ocoCall.op = "cancel"
    /\ LET tp == CancelAnswer(exchange[1].status, ocoCall.tpFault)
           sl == CancelAnswer(exchange[2].status, ocoCall.slFault)
       IN  /\ ocoLog' = <<[call |-> "cancel", orderId |-> 1, answer |-> tp],
                          [call |-> "cancel", orderId |-> 2, answer |-> sl]>>
           /\ exchange' =
                 [exchange EXCEPT
                     ![1].status = IF tp = "ok" THEN "CANCELED" ELSE @,
                     ![2].status = IF sl = "ok" THEN "CANCELED" ELSE @]
           /\ ocoCall' = [ocoCall EXCEPT !.op = "cancelled",
                                         !.result = (tp = "ok" /\ sl = "ok")]
    /\ UNCHANGED <<manager, calc, twapVars, activeGrids, gridStopFlags, gridTask,
                   gridUpdate, gridCall>>

\* the status field of an order the gateway reports
OrderStatuses == {"NEW", "PARTIALLY_FILLED", "FILLED", "CANCELED", "EXPIRED", "REJECTED"}

\* a classification that looks at the stop-loss order first
DetermineOcoStatusStopFirst(tp_status, sl_status) ==
    IF sl_status = "FILLED" THEN "STOP_LOSS_FILLED"
    ELSE IF tp_status = "FILLED" THEN "TAKE_PROFIT_FILLED"
    ELSE IF tp_status = "CANCELED" /\ sl_status = "CANCELED" THEN "BOTH_CANCELED"
    ELSE IF /\ tp_status \in {"NEW", "PARTIALLY_FILLED"}
            /\ sl_status \in {"NEW", "PARTIALLY_FILLED"} THEN "ACTIVE"
    ELSE "UNKNOWN"

\* _determine_oco_status, lines 350-362
DetermineOcoStatus(tp_status, sl_status) ==
    IF tp_status = "FILLED" THEN "TAKE_PROFIT_FILLED"
    ELSE IF sl_status = "FILLED" THEN "STOP_LOSS_FILLED"
    ELSE IF tp_status = "CANCELED" /\ sl_status = "CANCELED" THEN "BOTH_CANCELED"
    ELSE IF /\ tp_status \in {"NEW", "PARTIALLY_FILLED"}
            /\ sl_status \in {"NEW", "PARTIALLY_FILLED"} THEN "ACTIVE"
    ELSE "UNKNOWN"

\* get_oco_status, lines 318-337: the two order queries, each answered with the
\* order or a fault, and the overall status; None when a query fails
GetOcoStatus ==
    /\ ocoCall.op = "query"
    /\ ocoCall' =
          [ocoCall EXCEPT
              !.op = "status",
              !.result =
                  IF ocoCall.tpFetch = "ok" /\ ocoCall.slFetch = "ok"
                  THEN <<[take_profit |-> ocoCall.tp, stop_loss |-> ocoCall.sl,
                          oco_status |-> DetermineOcoStatus(ocoCall.tp, ocoCall.sl)]>>
                  ELSE <<>>]
    /\ UNCHANGED <<manager, calc, twapVars, gridVars, ocoLog>>

OcoArgs ==
    [symbol : Symbols, side : Sides, quantity : 0..2, takeProfit : OcoPrices,
     stopLoss : OcoPrices, rules : RuleSets]

\* main.py builds the manager, then calls place_oco_order once
PlaceOCO ==
    /\ manager = "none"
    /\ \E a \in OcoArgs, current \in OcoPrices, tpOutcome \in CreateOutcomes,
          slOutcome \in CreateOutcomes, cancelOk \in BOOLEAN :
           PlaceOcoOrder(a, current, tpOutcome, slOutcome, cancelOk)

----------------------------------------------------------------------------
(* Grid engine: grid.py calculate_grid_levels, place_grid_orders *)

\* the id place_grid_orders returns, and the ids a caller passes to stop
GridId == "GRID_BTCUSDT_1"
GridIds == {GridId, "GRID_BTCUSDT_0"}

\* the largest grid_count of a grid whose run is followed
MaxGridCount == 3
\* the number of initial placements the gateway may reject in one start
MaxInitialFailures == 1
\* the number of orders the exchange fills during one run
MaxFills == 2

NoMonitor == [pc |-> "none", queue |-> <<>>, price |-> 0, target |-> 0]

\* a dict keyed by price, in insertion order: a sequence of <<price, order id>>
DictKeys(d) == {d[i][1] : i \in 1..Len(d)}
DictIndex(d, k) == CHOOSE i \in 1..Len(d) : d[i][1] = k
\* d[k] = v: the value of an existing key is replaced in place, a new key is appended
DictSet(d, k, v) ==
    IF k \in DictKeys(d)
    THEN [d EXCEPT ![DictIndex(d, k)] = <<k, v>>]
    ELSE Append(d, <<k, v>>)
\* a removal that leaves the entry in place
DictDelNothing(d, k) == d

\* del d[k]
DictDel(d, k) == SelectSeq(d, LAMBDA e : e[1] # k)

\* the prices of a list of levels
LevelSet(levels) == {levels[i] : i \in 1..Len(levels)}

SetMin(S) == CHOOSE x \in S : \A y \in S : x <= y
SetMax(S) == CHOOSE x \in S : \A y \in S : x >= y

\* sorted(set(...))
RECURSIVE Sorted(_)
Sorted(S) == IF S = {} THEN <<>> ELSE <<SetMin(S)>> \o Sorted(S \ {SetMin(S)})

\* calculate_grid_levels, lines 121-142; percent is price_range_percent * 100.
\* min_price + i * price_step = center * ((100 - percent) * (n - 1) + 2 * i * percent)
\*                              / (100 * (n - 1))
CalculateGridLevels(center, percent, gridCount, tick) ==
    IF gridCount <= 1
    THEN <<center>>
    ELSE Sorted({ FloorToStep(center * ((100 - percent) * (gridCount - 1) + 2 * i * percent),
                              100 * (gridCount - 1), tick) : i \in 0..(gridCount - 1) })

\* place_grid_orders, lines 184-187: the center price, 0 for None
GridCenter(a, current) == IF a.center = 0 THEN current ELSE a.center

\* place_grid_orders, lines 190-193: order_quantity as a fraction num / den
GridQuantityNum(a) == IF a.orderQuantity = 0 THEN a.totalInvestment ELSE a.orderQuantity
GridQuantityDen(a, center) == IF a.orderQuantity = 0 THEN a.gridCount * center ELSE 1

\* place_grid_orders, line 203: the quantity rounded down to the step size
GridOrderQuantity(a, center) ==
    FloorToStep(GridQuantityNum(a), GridQuantityDen(a, center), a.rules.stepSize)

GridLevels(a, center) == CalculateGridLevels(center, a.percent, a.gridCount, a.tick)

\* place_grid_orders, lines 169-211: the checks that raise ValueError; info is
\* whether get_symbol_info returned the symbol's filters
GridInputsValid(a, info, current) ==
    /\ ValidateSymbol(a.symbol)
    /\ ~(a.percent <= 0 \/ a.percent >= 100)
    /\ ~(a.gridCount < 2)
    /\ info
    /\ GridCenter(a, current) # 0
    /\ GridQuantityNum(a) # 0
    /\ ~(GridQuantityNum(a) < a.rules.minQty * GridQuantityDen(a, GridCenter(a, current)))
    /\ ~(Len(GridLevels(a, GridCenter(a, current))) < 2)

\* place_grid_orders, lines 217-230: the record of a new grid
NewGridRecord(a, center) ==
    [symbol |-> a.symbol, center_price |-> center, price_range_percent |-> a.percent,
     grid_levels |-> GridLevels(a, center), order_quantity |-> GridOrderQuantity(a, center),
     buy_orders |-> <<>>, sell_orders |-> <<>>, executed_trades |-> <<>>,
     total_profit |-> 0, status |-> "ACTIVE", callback |-> a.callback]

\* an order the gateway accepted
NewOrder(side, price) == [side |-> side, price |-> price, status |-> "NEW", updateTime |-> 0]

\* one for loop of _place_initial_grid_orders over the levels of one side: the
\* gateway rejects the placements at the prices in failed
RECURSIVE InitialOrders(_, _, _, _, _)
InitialOrders(levels, side, failed, book, orders) ==
    IF levels = <<>>
    THEN [book |-> book, orders |-> orders]
    ELSE IF Head(levels) \in failed
         THEN InitialOrders(Tail(levels), side, failed, book, orders)
         ELSE InitialOrders(Tail(levels), side, failed,
                            Append(book, NewOrder(side, Head(levels))),
                            DictSet(orders, Head(levels), Len(book) + 1))

\* an initial placement that also buys at the centre level
PlaceInitialGridOrdersAtCenter(grid, failed, book) ==
    LET below == SelectSeq(grid.grid_levels, LAMBDA p : p <= grid.center_price)
        above == SelectSeq(grid.grid_levels, LAMBDA p : p > grid.center_price)
        buys  == InitialOrders(below, "BUY", failed, book, <<>>)
        sells == InitialOrders(above, "SELL", failed, buys.book, <<>>)
    IN  [book |-> sells.book,
         attempts |-> [i \in 1..Len(below) |-> <<"BUY", below[i]>>]
                         \o [i \in 1..Len(above) |-> <<"SELL", above[i]>>],
         grid |-> [grid EXCEPT !.buy_orders = buys.orders, !.sell_orders = sells.orders]]

\* _place_initial_grid_orders, lines 262-307: buys below the center, then sells above
PlaceInitialGridOrders(grid, failed, book) ==
    LET below == SelectSeq(grid.grid_levels, LAMBDA p : p < grid.center_price)
        above == SelectSeq(grid.grid_levels, LAMBDA p : p > grid.center_price)
        buys  == InitialOrders(below, "BUY", failed, book, <<>>)
        sells == InitialOrders(above, "SELL", failed, buys.book, <<>>)
    IN  [book |-> sells.book,
         attempts |-> [i \in 1..Len(below) |-> <<"BUY", below[i]>>]
                         \o [i \in 1..Len(above) |-> <<"SELL", above[i]>>],
         grid |-> [grid EXCEPT !.buy_orders = buys.orders, !.sell_orders = sells.orders]]

\* place_grid_orders: validation, then the record, the stop flag, the initial
\* orders and the monitoring thread
PlaceGridOrders(a, info, current, failed) ==
    /\ manager \in {"none", "grid"}
    /\ DOMAIN activeGrids = {}
    /\ gridCall.op # "stopping"
    /\ manager' = "grid"
    /\ IF GridInputsValid(a, info, current)
       THEN LET placed == PlaceInitialGridOrders(NewGridRecord(a, GridCenter(a, current)),
                                                 failed, exchange)
            IN  /\ activeGrids' = (GridId :> placed.grid) @@ activeGrids
                /\ gridStopFlags' = (GridId :> FALSE) @@ gridStopFlags
                /\ exchange' = placed.book
                /\ gridTask' = [NoMonitor EXCEPT !.pc = "loop"]
                /\ gridCall' = [op |-> "start", nth |-> 1, args |-> a,
                                current |-> current, failed |-> failed,
                                attempts |-> placed.attempts, result |-> GridId]
       ELSE /\ gridCall' = [op |-> "start", nth |-> 1, args |-> a,
                            current |-> current, failed |-> {},
                            attempts |-> <<>>, result |-> "None"]
            /\ UNCHANGED <<activeGrids, gridStopFlags, exchange, gridTask>>
    /\ UNCHANGED <<calc, twapVars, ocoVars, gridUpdate>>

\* the LOT_SIZE rules and tick sizes of the symbols a grid is started on
GridArgs ==
    [symbol : Symbols, center : {0, 100, 102}, percent : {0, 1, 10, 100},
     gridCount : 1..(MaxGridCount + 1), orderQuantity : 0..MaxOrderQuantity,
     totalInvestment : {0, 400},
     callback : BOOLEAN, rules : RuleSets, tick : {1, 5}]

\* the calls whose runs the scheduling specifications follow
GridRunArgs ==
    [symbol : TradingSymbols, center : {100}, percent : {10},
     gridCount : 2..MaxGridCount, orderQuantity : {1}, totalInvestment : {0},
     callback : BOOLEAN, rules : {[minQty |-> 1, maxQty |-> 20, stepSize |-> 1]},
     tick : {1}]

\* the prices whose initial placement the gateway may reject in one start
FailedPlacements(levels) ==
    {F \in SUBSET LevelSet(levels) :
        Cardinality(F) <= MaxInitialFailures}

\* main.py builds the manager, then calls place_grid_orders once
StartGrid ==
    /\ manager = "none"
    /\ \E a \in GridArgs, info \in BOOLEAN, current \in InitialPrices :
          \E failed \in FailedPlacements(GridLevels(a, Max(GridCenter(a, current), 1))) :
              PlaceGridOrders(a, info, current, failed)

StartGridRun ==
    /\ DOMAIN activeGrids = {}
    /\ \E a \in GridRunArgs :
          \E failed \in FailedPlacements(GridLevels(a, a.center)) :
              PlaceGridOrders(a, TRUE, 100, failed)

\* place_grid_orders, line 214: f"GRID_{symbol}_{int(time.time())}" on BTCUSDT
GridIdAt(now) == IF now = 1 THEN GridId ELSE "GRID_BTCUSDT_2"

\* place_grid_orders called again on the manager at epoch second now: the
\* record and the stop flag are stored under the id of that second, the initial
\* orders are placed and a thread is started.  gridTask stays with the thread
\* of the first grid
PlaceGridOrdersAgain(a, now, failed) ==
    /\ manager = "grid"
    /\ gridCall.op = "start" /\ gridCall.nth < MaxStarts
    /\ IF GridInputsValid(a, TRUE, 100)
       THEN LET placed == PlaceInitialGridOrders(NewGridRecord(a, GridCenter(a, 100)),
                                                 failed, exchange)
            IN  /\ activeGrids' = (GridIdAt(now) :> placed.grid) @@ activeGrids
                /\ gridStopFlags' = (GridIdAt(now) :> FALSE) @@ gridStopFlags
                /\ exchange' = placed.book
                /\ gridCall' = [op |-> "start", nth |-> gridCall.nth + 1, args |-> a,
                                current |-> 100, failed |-> failed,
                                attempts |-> placed.attempts, result |-> GridIdAt(now)]
       ELSE /\ gridCall' = [op |-> "start", nth |-> gridCall.nth + 1, args |-> a,
                            current |-> 100, failed |-> {},
                            attempts |-> <<>>, result |-> "None"]
            /\ UNCHANGED <<activeGrids, gridStopFlags, exchange>>
    /\ UNCHANGED <<manager, calc, twapVars, ocoVars, gridTask, gridUpdate>>

----------------------------------------------------------------------------
(* Grid engine: grid.py _monitor_grid, _handle_buy_fill, _handle_sell_fill,
   stop_grid, get_grid_status *)

Grid == activeGrids[GridId]

\* the exchange fills a resting order; updateTime is the rank of the fill
FilledOrders == {i \in 1..Len(exchange) : exchange[i].status = "FILLED"}
\* the exchange fills a resting order, at most `most` of them during one run
FillUpTo(id, most) ==
    /\ manager = "grid"
    /\ id \in 1..Len(exchange)
    /\ exchange[id].status = "NEW"
    /\ Cardinality(FilledOrders) < most
    /\ exchange' = [exchange EXCEPT ![id].status = "FILLED",
                                    ![id].updateTime = Cardinality(FilledOrders) + 1]
    /\ UNCHANGED <<manager, calc, twapVars, ocoVars, activeGrids, gridStopFlags,
                   gridTask, gridUpdate, gridCall>>

Fill(id) == FillUpTo(id, MaxFills)

\* a loop that does not look at the stop flag
MonitorCheckDeaf ==
    /\ gridTask.pc = "loop"
    /\ gridTask' = [gridTask EXCEPT !.pc = "buys", !.queue = Grid.buy_orders]
    /\ UNCHANGED <<manager, calc, twapVars, ocoVars, activeGrids, gridStopFlags,
                   exchange, gridUpdate, gridCall>>

\* _monitor_grid, lines 324-327: the stop flag, then list(grid['buy_orders'].items())
MonitorCheck ==
    /\ gridTask.pc = "loop"
    /\ gridTask' =
          IF gridStopFlags[GridId]
          THEN [gridTask EXCEPT !.pc = "exited"]
          ELSE [gridTask EXCEPT !.pc = "buys", !.queue = Grid.buy_orders]
    /\ UNCHANGED <<manager, calc, twapVars, ocoVars, activeGrids, gridStopFlags,
                   exchange, gridUpdate, gridCall>>

\* the iterator of stop_grid after the monitor deleted the entry at index idx of
\* the dict it walks: the entries behind the iterator's position move up by one
WalkerAfterDel(call, orders, idx) ==
    IF call.op = "stopping" /\ call.phase = orders /\ idx <= call.pos
    THEN [call EXCEPT !.pos = @ - 1]
    ELSE call

\* the trade _handle_buy_fill and _handle_sell_fill record, lines 380-387, 427-434
Trade(side, price, id) ==
    [side |-> side, price |-> price, quantity |-> Grid.order_quantity,
     time |-> exchange[id].updateTime, order_id |-> id]

\* a buy fill answered with a sell at the highest level above it
MonitorBuyFarthest(fault) ==
    /\ gridTask.pc = "buys"
    /\ gridTask.queue # <<>>
    /\ LET price == Head(gridTask.queue)[1]
           id    == Head(gridTask.queue)[2]
           higher == {p \in LevelSet(Grid.grid_levels) : p > price}
       IN  IF fault
           THEN /\ gridTask' = [gridTask EXCEPT !.pc = "loop", !.queue = <<>>]
                /\ UNCHANGED <<activeGrids, gridCall>>
           ELSE IF exchange[id].status = "FILLED"
           THEN /\ activeGrids' =
                      [activeGrids EXCEPT
                          ![GridId].buy_orders = DictDel(@, price),
                          ![GridId].executed_trades = Append(@, Trade("BUY", price, id))]
                /\ gridCall' = WalkerAfterDel(gridCall, "buys",
                                              DictIndex(Grid.buy_orders, price))
                /\ gridTask' =
                      IF higher # {}
                      THEN [gridTask EXCEPT !.pc = "placeSell", !.queue = Tail(@),
                                            !.price = price, !.target = SetMax(higher)]
                      ELSE [gridTask EXCEPT !.queue = Tail(@)]
           ELSE /\ gridTask' = [gridTask EXCEPT !.queue = Tail(@)]
                /\ UNCHANGED <<activeGrids, gridCall>>
    /\ UNCHANGED <<manager, calc, twapVars, ocoVars, gridStopFlags, exchange, gridUpdate>>

\* _monitor_grid, lines 327-335 and _handle_buy_fill, lines 371-392: the status
\* of the next buy order of the snapshot; a filled one is removed and recorded
MonitorBuy(fault) ==
    /\ gridTask.pc = "buys"
    /\ gridTask.queue # <<>>
    /\ LET price == Head(gridTask.queue)[1]
           id    == Head(gridTask.queue)[2]
           higher == {p \in LevelSet(Grid.grid_levels) : p > price}
       IN  IF fault
           THEN /\ gridTask' = [gridTask EXCEPT !.pc = "loop", !.queue = <<>>]
                /\ UNCHANGED <<activeGrids, gridCall>>
           ELSE IF exchange[id].status = "FILLED"
           THEN /\ activeGrids' =
                      [activeGrids EXCEPT
                          ![GridId].buy_orders = DictDel(@, price),
                          ![GridId].executed_trades = Append(@, Trade("BUY", price, id))]
                /\ gridCall' = WalkerAfterDel(gridCall, "buys",
                                              DictIndex(Grid.buy_orders, price))
                /\ gridTask' =
                      IF higher # {}
                      THEN [gridTask EXCEPT !.pc = "placeSell", !.queue = Tail(@),
                                            !.price = price, !.target = SetMin(higher)]
                      ELSE [gridTask EXCEPT !.queue = Tail(@)]
           ELSE /\ gridTask' = [gridTask EXCEPT !.queue = Tail(@)]
                /\ UNCHANGED <<activeGrids, gridCall>>
    /\ UNCHANGED <<manager, calc, twapVars, ocoVars, gridStopFlags, exchange, gridUpdate>>

\* _handle_buy_fill, lines 394-410: the sell order one level above
PlaceSellAbove(ok) ==
    /\ gridTask.pc = "placeSell"
    /\ IF ok
       THEN /\ exchange' = Append(exchange, NewOrder("SELL", gridTask.target))
            /\ activeGrids' =
                  [activeGrids EXCEPT
                      ![GridId].sell_orders = DictSet(@, gridTask.target, Len(exchange) + 1)]
       ELSE UNCHANGED <<exchange, activeGrids>>
    /\ gridTask' = [gridTask EXCEPT !.pc = "buys", !.price = 0, !.target = 0]
    /\ UNCHANGED <<manager, calc, twapVars, ocoVars, gridStopFlags, gridUpdate, gridCall>>

\* _monitor_grid, line 338: list(grid['sell_orders'].items())
MonitorSnapshotSells ==
    /\ gridTask.pc = "buys"
    /\ gridTask.queue = <<>>
    /\ gridTask' = [gridTask EXCEPT !.pc = "sells", !.queue = Grid.sell_orders]
    /\ UNCHANGED <<manager, calc, twapVars, ocoVars, activeGrids, gridStopFlags,
                   exchange, gridUpdate, gridCall>>

\* a profit taken against the oldest lower buy
SellProfitOldest(trades, price, quantity) ==
    LET buys == {i \in 1..Len(trades) : trades[i].side = "BUY" /\ trades[i].price < price}
        oldest == CHOOSE i \in buys : \A j \in buys : trades[i].time <= trades[j].time
    IN  IF Len(trades) >= 2 /\ buys # {}
        THEN (price - trades[oldest].price) * quantity
        ELSE 0

\* _handle_sell_fill, lines 437-443: the profit against the latest lower buy
SellProfit(trades, price, quantity) ==
    LET buys == {i \in 1..Len(trades) : trades[i].side = "BUY" /\ trades[i].price < price}
        latest == CHOOSE i \in buys : \A j \in buys :
                      trades[j].time < trades[i].time \/ (trades[j].time = trades[i].time /\ i <= j)
    IN  IF Len(trades) >= 2 /\ buys # {}
        THEN (price - trades[latest].price) * quantity
        ELSE 0

\* a monitor that a failing status query of a sell order ends
MonitorSellFragile(fault) ==
    /\ gridTask.pc = "sells"
    /\ gridTask.queue # <<>>
    /\ LET price == Head(gridTask.queue)[1]
           id    == Head(gridTask.queue)[2]
           lower == {p \in LevelSet(Grid.grid_levels) : p < price}
           trades == Append(Grid.executed_trades, Trade("SELL", price, id))
       IN  IF fault
           THEN /\ gridTask' = [gridTask EXCEPT !.pc = "exited", !.queue = <<>>]
                /\ UNCHANGED <<activeGrids, gridCall>>
           ELSE IF exchange[id].status = "FILLED"
           THEN /\ activeGrids' =
                      [activeGrids EXCEPT
                          ![GridId].sell_orders = DictDel(@, price),
                          ![GridId].executed_trades = trades,
                          ![GridId].total_profit =
                              @ + SellProfit(trades, price, Grid.order_quantity)]
                /\ gridCall' = WalkerAfterDel(gridCall, "sells",
                                              DictIndex(Grid.sell_orders, price))
                /\ gridTask' =
                      IF lower # {}
                      THEN [gridTask EXCEPT !.pc = "placeBuy", !.queue = Tail(@),
                                            !.price = price, !.target = SetMax(lower)]
                      ELSE [gridTask EXCEPT !.queue = Tail(@)]
           ELSE /\ gridTask' = [gridTask EXCEPT !.queue = Tail(@)]
                /\ UNCHANGED <<activeGrids, gridCall>>
    /\ UNCHANGED <<manager, calc, twapVars, ocoVars, gridStopFlags, exchange, gridUpdate>>

\* _monitor_grid, lines 338-346 and _handle_sell_fill, lines 418-448
MonitorSell(fault) ==
    /\ gridTask.pc = "sells"
    /\ gridTask.queue # <<>>
    /\ LET price == Head(gridTask.queue)[1]
           id    == Head(gridTask.queue)[2]
           lower == {p \in LevelSet(Grid.grid_levels) : p < price}
           trades == Append(Grid.executed_trades, Trade("SELL", price, id))
       IN  IF fault
           THEN /\ gridTask' = [gridTask EXCEPT !.pc = "loop", !.queue = <<>>]
                /\ UNCHANGED <<activeGrids, gridCall>>
           ELSE IF exchange[id].status = "FILLED"
           THEN /\ activeGrids' =
                      [activeGrids EXCEPT
                          ![GridId].sell_orders = DictDel(@, price),
                          ![GridId].executed_trades = trades,
                          ![GridId].total_profit =
                              @ + SellProfit(trades, price, Grid.order_quantity)]
                /\ gridCall' = WalkerAfterDel(gridCall, "sells",
                                              DictIndex(Grid.sell_orders, price))
                /\ gridTask' =
                      IF lower # {}
                      THEN [gridTask EXCEPT !.pc = "placeBuy", !.queue = Tail(@),
                                            !.price = price, !.target = SetMax(lower)]
                      ELSE [gridTask EXCEPT !.queue = Tail(@)]
           ELSE /\ gridTask' = [gridTask EXCEPT !.queue = Tail(@)]
                /\ UNCHANGED <<activeGrids, gridCall>>
    /\ UNCHANGED <<manager, calc, twapVars, ocoVars, gridStopFlags, exchange, gridUpdate>>

\* _handle_sell_fill, lines 450-466: the buy order one level below
PlaceBuyBelow(ok) ==
    /\ gridTask.pc = "placeBuy"
    /\ IF ok
       THEN /\ exchange' = Append(exchange, NewOrder("BUY", gridTask.target))
            /\ activeGrids' =
                  [activeGrids EXCEPT
                      ![GridId].buy_orders = DictSet(@, gridTask.target, Len(exchange) + 1)]
       ELSE UNCHANGED <<exchange, activeGrids>>
    /\ gridTask' = [gridTask EXCEPT !.pc = "sells", !.price = 0, !.target = 0]
    /\ UNCHANGED <<manager, calc, twapVars, ocoVars, gridStopFlags, gridUpdate, gridCall>>

\* _monitor_grid, lines 349-361: the UPDATE event and the sleep; a callback
\* that raises is caught at 359 and the loop sleeps longer
MonitorUpdate(fault) ==
    /\ gridTask.pc = "sells"
    /\ gridTask.queue = <<>>
    /\ fault => Grid.callback
    /\ gridUpdate' =
          IF Grid.callback /\ ~fault
          THEN <<[active_buy_orders |-> Len(Grid.buy_orders),
                  active_sell_orders |-> Len(Grid.sell_orders),
                  total_profit |-> Grid.total_profit]>>
          ELSE gridUpdate
    /\ gridTask' = [gridTask EXCEPT !.pc = "loop"]
    /\ UNCHANGED <<manager, calc, twapVars, ocoVars, activeGrids, gridStopFlags,
                   exchange, gridCall>>

\* the steps of the _monitor_grid thread
MonitorGrid ==
    \/ MonitorCheck
    \/ \E fault \in BOOLEAN : MonitorBuy(fault)
    \/ \E ok \in BOOLEAN : PlaceSellAbove(ok)
    \/ MonitorSnapshotSells
    \/ \E fault \in BOOLEAN : MonitorSell(fault)
    \/ \E ok \in BOOLEAN : PlaceBuyBelow(ok)
    \/ \E fault \in BOOLEAN : MonitorUpdate(fault)

\* iter(d.items()): the iterator remembers the size of the dict and how many
\* entries it has left to give
Walker(id, phase, d) ==
    [op |-> "stopping", id |-> id, phase |-> phase, pos |-> 0,
     used |-> Len(d), left |-> Len(d)]

\* the orders a grid tracks: the values of buy_orders and of sell_orders
TrackedOrders(grid) ==
    {grid.buy_orders[i][2] : i \in 1..Len(grid.buy_orders)}
        \cup {grid.sell_orders[i][2] : i \in 1..Len(grid.sell_orders)}

\* how a call of stop_grid ends: its result, the orders the grid tracked when
\* the call began and the orders it called futures_cancel_order for, in order
StopResult(id, result, tracked, cancelled) ==
    [op |-> "stop", id |-> id, result |-> result, tracked |-> tracked,
     cancelled |-> cancelled]

\* stop_grid, lines 482-493: the lookup, the stop flag, the iterator over buy_orders
StopGridFlag(id) ==
    /\ manager = "grid"
    /\ gridCall.op # "stopping"
    /\ IF id \notin DOMAIN activeGrids
       THEN /\ gridCall' = StopResult(id, FALSE, {}, <<>>)
            /\ UNCHANGED gridStopFlags
       ELSE /\ gridStopFlags' = [gridStopFlags EXCEPT ![id] = TRUE]
            /\ gridCall' = Walker(id, "buys", activeGrids[id].buy_orders)
                              @@ [tracked |-> TrackedOrders(activeGrids[id]),
                                  cancelled |-> <<>>]
    /\ UNCHANGED <<manager, calc, twapVars, ocoVars, activeGrids, gridTask, exchange,
                   gridUpdate>>

\* next() of a dict iterator raises RuntimeError when the dict changed size, or
\* when it finds an entry after it gave as many as the dict had
WalkerRaises(call, d) ==
    \/ call.used # Len(d)
    \/ call.pos < Len(d) /\ call.left = 0

\* the status stop_grid writes: line 515
GridStopStatus == "STOPPED"

\* stop_grid, lines 493-523: one step of a for loop over buy_orders.items() or
\* sell_orders.items(): a RuntimeError of the iterator ends the call at the outer
\* handler with False, the end of the second loop with STOPPED and True
StopGridStep(cancelOk) ==
    /\ gridCall.op = "stopping"
    /\ LET id == gridCall.id
           d  == IF gridCall.phase = "buys" THEN activeGrids[id].buy_orders
                                            ELSE activeGrids[id].sell_orders
       IN  IF WalkerRaises(gridCall, d)
           THEN /\ gridCall' = StopResult(id, FALSE, gridCall.tracked, gridCall.cancelled)
                /\ UNCHANGED <<activeGrids, exchange>>
           ELSE IF gridCall.pos >= Len(d)
           THEN IF gridCall.phase = "buys"
                THEN /\ gridCall' = Walker(id, "sells", activeGrids[id].sell_orders)
                                       @@ [tracked |-> gridCall.tracked,
                                           cancelled |-> gridCall.cancelled]
                     /\ UNCHANGED <<activeGrids, exchange>>
                ELSE /\ activeGrids' = [activeGrids EXCEPT ![id].status = GridStopStatus]
                     /\ gridCall' = StopResult(id, TRUE, gridCall.tracked, gridCall.cancelled)
                     /\ UNCHANGED exchange
           ELSE /\ gridCall' = [gridCall EXCEPT !.pos = @ + 1, !.left = @ - 1,
                                                !.cancelled = Append(@, d[gridCall.pos + 1][2])]
                /\ exchange' =
                      LET order == d[gridCall.pos + 1][2]
                      IN  IF cancelOk /\ exchange[order].status = "NEW"
                          THEN [exchange EXCEPT ![order].status = "CANCELED"]
                          ELSE exchange
                /\ UNCHANGED activeGrids
    /\ UNCHANGED <<manager, calc, twapVars, ocoVars, gridStopFlags, gridTask, gridUpdate>>

\* get_grid_status: a copy of the record without the callback, or None
GetGridStatus(id) ==
    /\ manager = "grid"
    /\ gridCall.op # "stopping"
    /\ gridCall' =
          IF id \in DOMAIN activeGrids
          THEN [op |-> "status", id |-> id,
                result |-> <<[f \in DOMAIN activeGrids[id] \ {"callback"} |-> activeGrids[id][f]]>>]
          ELSE [op |-> "status", id |-> id, result |-> <<>>]
    /\ UNCHANGED <<manager, calc, twapVars, ocoVars, activeGrids, gridStopFlags,
                   gridTask, exchange, gridUpdate>>

\* the caller stops the grid it started
StopGrid ==
    \/ StopGridFlag(GridId)
    \/ \E cancelOk \in BOOLEAN : StopGridStep(cancelOk)

GridNext ==
    \/ StartGridRun
    \/ \E id \in 1..(MaxGridCount + MaxFills) : Fill(id)
    \/ MonitorGrid
    \/ StopGrid

----------------------------------------------------------------------------
Init ==
    /\ manager = "none"
    /\ calc = [pc |-> "idle"]
    /\ activeTwap = <<>>
    /\ twapStopFlags = <<>>
    /\ twapTask = NoTask
    /\ twapGateway = <<>>
    /\ twapEvents = <<>>
    /\ twapCall = NoCall
    /\ ocoCall = NoCall
    /\ ocoLog = <<>>
    /\ activeGrids = <<>>
    /\ gridStopFlags = <<>>
    /\ gridTask = NoMonitor
    /\ exchange = <<>>
    /\ gridUpdate = <<>>
    /\ gridCall = NoCall

SpecTwap == Init /\ [][TwapNext]_vars

\* the calls that ask for more orders than the scheduling specifications follow
ManyOrdersArgs ==
    [symbol : TradingSymbols, side : {"BUY"}, total : 1..2, duration : {2},
     numOrders : {MaxNumOrders + 1}, orderType : {"MARKET", "LIMIT"}, limitPrice : {100},
     maxDev : {0}, callback : {FALSE}, rules : RuleSets]

StartManyOrders ==
    /\ DOMAIN activeTwap = {}
    /\ \E a \in ManyOrdersArgs : PlaceTwapOrder(a)

ManyOrdersNext ==
    \/ StartManyOrders
    \/ TwapLoop

SpecManyOrders == Init /\ [][ManyOrdersNext]_vars

\* the thread of _execute_twap is scheduled again and again and every gateway
\* call it makes returns; the caller's stop call is not bound to happen
SpecTwapFair == Init /\ [][TwapNext]_vars /\ WF_vars(TwapLoop)

SpecOco == Init /\ [][PlaceOCO]_vars

\* main.py places the pair and returns; the exchange executes the orders
OcoPairNext ==
    \/ PlaceOCO
    \/ \E id \in 1..2 : GatewayFillsOco(id)

SpecOcoPair == Init /\ [][OcoPairNext]_vars

SpecGrid == Init /\ [][GridNext]_vars

\* a grid whose orders the exchange executes while the monitor thread runs
MonitorNext ==
    \/ StartGridRun
    \/ \E id \in 1..(MaxGridCount + MaxFills) : Fill(id)
    \/ MonitorGrid

SpecMonitor == Init /\ [][MonitorNext]_vars

\* the number of orders the exchange fills during a run whose profit is followed
MaxProfitFills == 3

\* a grid with two levels on each side of the centre price
ProfitRunArgs ==
    [symbol : {"BTCUSDT"}, center : {100}, percent : {10},
     gridCount : {4}, orderQuantity : {1, 2}, totalInvestment : {0},
     callback : {FALSE}, rules : {[minQty |-> 1, maxQty |-> 20, stepSize |-> 1]},
     tick : {1}]

StartProfitRun ==
    /\ DOMAIN activeGrids = {}
    /\ \E a \in ProfitRunArgs : PlaceGridOrders(a, TRUE, 100, {})

\* the monitor of that grid and the fills of the exchange
ProfitNext ==
    \/ StartProfitRun
    \/ \E id \in 1..(4 + MaxProfitFills) : FillUpTo(id, MaxProfitFills)
    \/ MonitorGrid

SpecProfit == Init /\ [][ProfitNext]_vars

\* the largest runs that are followed together with the caller's getStatus calls
MaxWatchedTotal == 2
MaxWatchedOrders == 2
MaxWatchedGridCount == 2

TwapWatchedArgs ==
    {a \in TwapRunArgs : a.total <= MaxWatchedTotal /\ a.numOrders <= MaxWatchedOrders}
GridWatchedArgs == {a \in GridRunArgs : a.gridCount <= MaxWatchedGridCount}

StartWatchedTwap ==
    /\ DOMAIN activeTwap = {}
    /\ \E a \in TwapWatchedArgs : PlaceTwapOrder(a)

StartWatchedGrid ==
    /\ DOMAIN activeGrids = {}
    /\ \E a \in GridWatchedArgs :
          \E failed \in FailedPlacements(GridLevels(a, a.center)) :
              PlaceGridOrders(a, TRUE, 100, failed)

\* a TWAP run or a Grid run with the caller's stop and getStatus calls, on the
\* id of the run and on an unknown id
RunsNext ==
    \/ StartWatchedTwap
    \/ TwapLoop
    \/ \E id \in TwapIds : StopTwapFlag(id)
    \/ StopTwapStatus
    \/ \E id \in TwapIds : GetTwapStatus(id)
    \/ StartWatchedGrid
    \/ \E id \in 1..(MaxGridCount + MaxFills) : Fill(id)
    \/ MonitorGrid
    \/ \E id \in GridIds : StopGridFlag(id)
    \/ \E cancelOk \in BOOLEAN : StopGridStep(cancelOk)
    \/ \E id \in GridIds : GetGridStatus(id)

SpecRuns == Init /\ [][RunsNext]_vars

\* a grid, the fills of the exchange, the monitor thread and the caller's stop
GridStopNext ==
    \/ StartWatchedGrid
    \/ \E id \in 1..(MaxGridCount + MaxFills) : Fill(id)
    \/ MonitorGrid
    \/ StopGrid

\* the thread of _monitor_grid is scheduled again and again and every gateway
\* call it makes returns; fills and the caller's stop call are not bound to happen
SpecGridFair == Init /\ [][GridStopNext]_vars /\ WF_vars(MonitorGrid)

\* one call of placeOCO, startTWAP or startGrid on a new manager
StartNext ==
    \/ PlaceOCO
    \/ StartTWAP
    \/ StartGrid

SpecStart == Init /\ [][StartNext]_vars

\* the start calls of one caller on one manager, the threads not yet scheduled
StartTwapAgain ==
    /\ TwapId \in DOMAIN activeTwap
    /\ \E a \in TwapWatchedArgs, now \in Seconds : PlaceTwapOrderAgain(a, now)

StartGridAgain ==
    /\ GridId \in DOMAIN activeGrids
    /\ \E a \in GridWatchedArgs, now \in Seconds :
          \E failed \in FailedPlacements(GridLevels(a, a.center)) :
              PlaceGridOrdersAgain(a, now, failed)

IdsNext ==
    \/ StartWatchedTwap
    \/ StartTwapAgain
    \/ StartWatchedGrid
    \/ StartGridAgain

SpecIds == Init /\ [][IdsNext]_vars

\* total_quantity and num_orders of the second run of a manager
MaxLaterTotal == 1

\* a second run started on the manager one second after the first, under the
\* trading rules the exchange gave for the first, while the thread of the first
\* run executes and the caller stops either run
StartTwapLater ==
    /\ TwapId \in DOMAIN activeTwap
    /\ twapCall.op = "start"
    /\ \E a \in {w \in TwapWatchedArgs : /\ w.rules = twapCall.args.rules
                                         /\ w.total <= MaxLaterTotal
                                         /\ w.numOrders <= MaxLaterTotal
                                         /\ w.maxDev = 0 /\ ~w.callback} :
          PlaceTwapOrderAgain(a, 2)

TwoRunsNext ==
    \/ StartWatchedTwap
    \/ StartTwapLater
    \/ TwapLoop
    \/ \E id \in {TwapIdAt(1), TwapIdAt(2)} : StopTwapFlag(id)
    \/ StopTwapStatus

SpecTwoRuns == Init /\ [][TwoRunsNext]_vars

----------------------------------------------------------------------------
(* calculate_order_chunks applied to every argument within the bounds *)

InitChunks ==
    /\ calc \in [pc : {"args"}, total : 1..MaxCalcTotal, numOrders : 1..MaxCalcOrders,
                 rules : RuleSets, chunks : {<<>>}]
    /\ manager = "none"
    /\ activeTwap = <<>>
    /\ twapStopFlags = <<>>
    /\ twapTask = NoTask
    /\ twapGateway = <<>>
    /\ twapEvents = <<>>
    /\ twapCall = NoCall
    /\ ocoCall = NoCall
    /\ ocoLog = <<>>
    /\ activeGrids = <<>>
    /\ gridStopFlags = <<>>
    /\ gridTask = NoMonitor
    /\ exchange = <<>>
    /\ gridUpdate = <<>>
    /\ gridCall = NoCall

\* a call of calculate_order_chunks
CalcChunks ==
    /\ calc.pc = "args"
    /\ calc' = [calc EXCEPT !.pc = "done",
                            !.chunks = CalculateOrderChunks(calc.total, calc.numOrders, calc.rules)]
    /\ UNCHANGED <<manager, twapVars, ocoVars, gridVars>>

SpecChunks == InitChunks /\ [][CalcChunks]_vars

\* the largest grid_count calculate_grid_levels is applied to
MaxLevelCount == 5

\* the calls of calculate_grid_levels: center price in units, the range in
\* tenths (1 is 0.1), the grid count and the tick size in tenths of a unit
InitLevels ==
    /\ calc \in [pc : {"grid"}, center : {1, 2, 5, 10, 100}, percent : {1, 2, 5},
                 gridCount : 2..MaxLevelCount, tick : {1, 5, 10}, levels : {<<>>}]
    /\ manager = "none"
    /\ activeTwap = <<>>
    /\ twapStopFlags = <<>>
    /\ twapTask = NoTask
    /\ twapGateway = <<>>
    /\ twapEvents = <<>>
    /\ twapCall = NoCall
    /\ ocoCall = NoCall
    /\ ocoLog = <<>>
    /\ activeGrids = <<>>
    /\ gridStopFlags = <<>>
    /\ gridTask = NoMonitor
    /\ exchange = <<>>
    /\ gridUpdate = <<>>
    /\ gridCall = NoCall

\* a call of calculate_grid_levels
CalcLevels ==
    /\ calc.pc = "grid"
    /\ calc' = [calc EXCEPT
                  !.pc = "levels",
                  !.levels = CalculateGridLevelsFloat(FloatInt(calc.center),
                                                      FloatDecimal(calc.percent, 10),
                                                      calc.gridCount,
                                                      FloatDecimal(calc.tick, 10))]
    /\ UNCHANGED <<manager, twapVars, ocoVars, gridVars>>

SpecLevels == InitLevels /\ [][CalcLevels]_vars

\* the deviation checks of _execute_twap: the reference price and the current
\* price of a chunk in tenths of a unit, max_price_deviation in tenths (1 is 10%)
InitDeviation ==
    /\ calc \in [pc : {"deviation"}, initial : 1..MaxTenths, current : 1..MaxTenths,
                 maxDev : {0, 1, 2, 5}, emitted : {FALSE}]
    /\ manager = "none"
    /\ activeTwap = <<>>
    /\ twapStopFlags = <<>>
    /\ twapTask = NoTask
    /\ twapGateway = <<>>
    /\ twapEvents = <<>>
    /\ twapCall = NoCall
    /\ ocoCall = NoCall
    /\ ocoLog = <<>>
    /\ activeGrids = <<>>
    /\ gridStopFlags = <<>>
    /\ gridTask = NoMonitor
    /\ exchange = <<>>
    /\ gridUpdate = <<>>
    /\ gridCall = NoCall

\* lines 297-306 before one chunk: whether the callback gets PRICE_DEVIATION
CheckDeviation ==
    /\ calc.pc = "deviation"
    /\ calc' = [calc EXCEPT
                  !.pc = "checked",
                  !.emitted = DeviatesFloat(FloatDecimal(calc.current, 10),
                                            FloatDecimal(calc.initial, 10),
                                            FloatDecimal(calc.maxDev, 10))]
    /\ UNCHANGED <<manager, twapVars, ocoVars, gridVars>>

SpecDeviation == InitDeviation /\ [][CheckDeviation]_vars

\* the calls of get_oco_status: the status of the two orders at the gateway
\* and whether each query is answered
InitOcoStatus ==
    /\ ocoCall \in [op : {"query"}, tp : OrderStatuses, sl : OrderStatuses,
                    tpFetch : {"ok", "fault"}, slFetch : {"ok", "fault"},
                    result : {<<>>}]
    /\ manager = "none"
    /\ calc = [pc |-> "idle"]
    /\ activeTwap = <<>>
    /\ twapStopFlags = <<>>
    /\ twapTask = NoTask
    /\ twapGateway = <<>>
    /\ twapEvents = <<>>
    /\ twapCall = NoCall
    /\ ocoLog = <<>>
    /\ activeGrids = <<>>
    /\ gridStopFlags = <<>>
    /\ gridTask = NoMonitor
    /\ exchange = <<>>
    /\ gridUpdate = <<>>
    /\ gridCall = NoCall

SpecOcoStatus == InitOcoStatus /\ [][GetOcoStatus]_vars

\* the calls of cancel_oco_order on a SELL pair: the status of the two orders
\* at the gateway and whether each cancel call meets a fault
InitOcoCancel ==
    /\ ocoCall \in [op : {"cancel"}, tpFault : BOOLEAN, slFault : BOOLEAN,
                    result : {FALSE}]
    /\ exchange \in
          {<<[side |-> "SELL", price |-> 105, status |-> tp, updateTime |-> 0],
             [side |-> "SELL", price |-> 95, status |-> sl, updateTime |-> 0]>>
              : tp \in OrderStatuses, sl \in OrderStatuses}
    /\ manager = "oco"
    /\ calc = [pc |-> "idle"]
    /\ activeTwap = <<>>
    /\ twapStopFlags = <<>>
    /\ twapTask = NoTask
    /\ twapGateway = <<>>
    /\ twapEvents = <<>>
    /\ twapCall = NoCall
    /\ ocoLog = <<>>
    /\ activeGrids = <<>>
    /\ gridStopFlags = <<>>
    /\ gridTask = NoMonitor
    /\ gridUpdate = <<>>
    /\ gridCall = NoCall

SpecOcoCancel == InitOcoCancel /\ [][CancelOcoOrder]_vars

\* the calls of validate_quantity: the manager, the symbol, whether
\* futures_exchange_info answers, the LOT_SIZE filter and the quantity
InitValidate ==
    /\ calc \in [pc : {"query"}, unit : {"twap", "oco"}, symbol : Symbols,
                 fetch : {"ok", "fault"}, rules : TenthsRuleSets,
                 quantity : 1..MaxTenths, result : {FALSE}]
    /\ manager = "none"
    /\ activeTwap = <<>>
    /\ twapStopFlags = <<>>
    /\ twapTask = NoTask
    /\ twapGateway = <<>>
    /\ twapEvents = <<>>
    /\ twapCall = NoCall
    /\ ocoCall = NoCall
    /\ ocoLog = <<>>
    /\ activeGrids = <<>>
    /\ gridStopFlags = <<>>
    /\ gridTask = NoMonitor
    /\ exchange = <<>>
    /\ gridUpdate = <<>>
    /\ gridCall = NoCall

\* a call of validate_quantity
ValidateCall ==
    /\ calc.pc = "query"
    /\ calc' = [calc EXCEPT
                  !.pc = "validated",
                  !.result =
                      IF calc.unit = "twap"
                      THEN TwapValidateQuantity(calc.symbol, calc.fetch, calc.rules, calc.quantity)
                      ELSE OcoDecimalValidateQuantity(calc.symbol, calc.fetch, calc.rules,
                                                      calc.quantity)]
    /\ UNCHANGED <<manager, twapVars, ocoVars, gridVars>>

SpecValidate == InitValidate /\ [][ValidateCall]_vars

----------------------------------------------------------------------------
(* Claims about the TWAP scheduler *)

TerminalStatus == {"COMPLETED", "STOPPED", "ERROR"}
TwapStarted == TwapId \in DOMAIN activeTwap

\* C2: once the status of a TWAP run is COMPLETED, STOPPED or ERROR it never
\* changes again, however stop calls interleave with the background loop
C2_TerminalNeverChanges ==
    [][(TwapStarted /\ Run.status \in TerminalStatus)
          => activeTwap'[TwapId].status = Run.status]_vars

\* C4: a loop that saw the stop flag and left before attempting every chunk
\* ends with status STOPPED; COMPLETED is final only after all chunks
C4_StoppedWhenFlagObserved ==
    (TwapStarted /\ twapTask.pc = "done" /\ twapTask.stopSeen /\ twapCall.op # "stopping")
        => Run.status = "STOPPED"

\* the positions of the loop from which the next thing it does is the check of
\* the stop flag, or nothing
BeforeCheck == {"sleep", "check", "finish", "done"}

\* C12: once the stop flag is set before the loop's check for a chunk, neither
\* that chunk nor a later one is placed; the loop starts on a chunk only from a
\* check that found the flag unset, and places orders only from there
C12_StopHaltsFutureChunks ==
    [][/\ (TwapStarted /\ twapStopFlags[TwapId] /\ twapTask.pc \in BeforeCheck)
            => /\ twapGateway' = twapGateway
               /\ twapTask'.pc \in BeforeCheck
               /\ twapStopFlags'[TwapId]
       /\ (TwapStarted /\ twapTask'.pc = "price" /\ twapTask.pc # "price")
            => twapTask.pc = "check" /\ ~twapStopFlags[TwapId]
       /\ twapGateway' # twapGateway => twapTask.pc = "place"]_vars

\* a run stopped after its first chunk order and before its last
C12_Witness ==
    /\ TwapStarted /\ twapTask.pc = "done" /\ twapTask.stopSeen
    /\ twapGateway # <<>> /\ Len(twapGateway) < Len(Run.chunks)

\* the loop of a run with a callback went through every chunk with no stop
\* flag seen and has returned
LoopExitedNormally ==
    /\ TwapStarted /\ Run.callback
    /\ twapTask.pc = "done" /\ twapTask.initialPrice # 0
    /\ ~twapTask.stopSeen /\ ~twapStopFlags[TwapId]
\* every chunk was placed and its order came back executed in full
AllChunksFilled ==
    /\ Len(Run.orders) = Len(Run.chunks)
    /\ \A i \in 1..Len(Run.orders) :
          Run.orders[i].qty > 0 /\ Run.orders[i].executedQty = Run.orders[i].qty
\* the events delivered, the PRICE_DEVIATION notices left out
CompletionEvents == SelectSeq(twapEvents, LAMBDA e : e[1] # "PRICE_DEVIATION")
CompletedEvents == SelectSeq(twapEvents, LAMBDA e : e[1] = "COMPLETED")

\* C13: a run with a callback that is not stopped and whose chunk placements
\* all succeed with fills delivers CHUNK_COMPLETED 1..len(chunks) in order, then
\* one COMPLETED carrying total fill value / total fill quantity, and no more
C13_EventSequence ==
    (LoopExitedNormally /\ AllChunksFilled)
        => CompletionEvents =
              [i \in 1..Len(Run.chunks) |-> <<"CHUNK_COMPLETED", i>>]
                  \o << <<"COMPLETED", FillPrice>> >>

\* C14: every run with a callback whose loop exits normally delivers exactly
\* one COMPLETED event, also when no fill was accumulated
C14_CompletionAlwaysReported ==
    LoopExitedNormally => Len(CompletedEvents) = 1

----------------------------------------------------------------------------
(* Claims about calculate_order_chunks *)

ChunksReturned == calc.pc = "done" /\ ValidateQuantity(calc.rules, calc.total)

\* C5: for every validated total_quantity, every num_orders >= 1 and every rule
\* set, the chunks returned sum to exactly total_quantity
C5_ChunksSumToTotal ==
    ChunksReturned => SumSeq(calc.chunks) = calc.total

\* C6: every chunk returned for a validated total_quantity is at least minQty,
\* so never zero or negative
C6_NoChunkBelowMinQty ==
    ChunksReturned => \A i \in 1..Len(calc.chunks) : calc.chunks[i] >= calc.rules.minQty

----------------------------------------------------------------------------
(* Claims about the OCO coordinator *)

OcoPlaced == ocoCall.op = "place"
TakeProfitPlaced == Len(ocoLog) >= 1 /\ ocoLog[1].answer = "ok"
StopLossFailed == Len(ocoLog) >= 2 /\ ocoLog[2].answer # "ok"
CancelCalls == {i \in 1..Len(ocoLog) : ocoLog[i].call = "cancel"}

\* C7: when the stop-loss placement fails after the take-profit placement
\* succeeded, whatever the kind of failure, place_oco_order has attempted
\* exactly one cancel of the take-profit order when it reports failure
C7_RollbackOnEveryFailure ==
    (OcoPlaced /\ TakeProfitPlaced /\ StopLossFailed)
        => /\ ocoCall.result = "None"
           /\ Cardinality(CancelCalls) = 1

\* the ordering the claim states, from the arguments and the current price
StrictlyOrdered(a, current) ==
    \/ a.side = "BUY" /\ a.takeProfit < current /\ current < a.stopLoss
    \/ a.side = "SELL" /\ a.stopLoss < current /\ current < a.takeProfit

\* C8: place_oco_order places no order and returns failure unless take-profit,
\* current price and stop-loss are strictly ordered as the side requires; a SELL
\* at current price 100 with take-profit 105 and stop-loss 95 is accepted
C8_SidePriceOrdering ==
    OcoPlaced =>
        /\ (ocoLog # <<>> \/ ocoCall.result # "None")
              => StrictlyOrdered(ocoCall.args, ocoCall.current)
        /\ (/\ OcoInputsValid(ocoCall.args) /\ ocoCall.args.side = "SELL"
            /\ ocoCall.current = 100 /\ ocoCall.args.takeProfit = 105
            /\ ocoCall.args.stopLoss = 95)
              => ocoLog # <<>>

\* a SELL pair accepted at current price 100: take-profit 105, stop-loss 95
C8_Witness ==
    /\ OcoPlaced /\ ocoCall.result = "PAIR" /\ Len(ocoLog) = 2
    /\ ocoCall.args.side = "SELL" /\ ocoCall.current = 100
    /\ ocoCall.args.takeProfit = 105 /\ ocoCall.args.stopLoss = 95

----------------------------------------------------------------------------
(* Claims about the Grid engine *)

GridStarted == GridId \in DOMAIN activeGrids
\* the orders of the run resting at the exchange at a price
RestingAt(price) ==
    {i \in 1..Len(exchange) : exchange[i].price = price /\ exchange[i].status = "NEW"}

\* C1: in every state of a Grid run each price level holds at most one resting
\* order of the run and is never a key of both buy_orders and sell_orders
C1_OneRestingOrderPerLevel ==
    GridStarted =>
        /\ \A p \in LevelSet(Grid.grid_levels) : Cardinality(RestingAt(p)) <= 1
        /\ DictKeys(Grid.buy_orders) \cap DictKeys(Grid.sell_orders) = {}

\* the number of cancel calls a returned stop call made for an order
CancelCallsFor(order) ==
    Cardinality({i \in 1..Len(gridCall.cancelled) : gridCall.cancelled[i] = order})

\* C11: a stop call on an existing grid has made one cancel call for every
\* order that was in buy_orders or sell_orders when it ran, whatever the
\* earlier cancel calls answered
C11_StopCancelsEveryTrackedOrder ==
    (gridCall.op = "stop" /\ gridCall.id \in DOMAIN activeGrids)
        => \A order \in gridCall.tracked : CancelCallsFor(order) = 1

\* C10: a stop call on an existing grid returns True and leaves the status
\* STOPPED, whatever the cancel calls answer and however the monitoring loop
\* changes buy_orders and sell_orders while stop walks them
C10_StopAlwaysReachesStopped ==
    (gridCall.op = "stop" /\ gridCall.id \in DOMAIN activeGrids)
        => gridCall.result /\ activeGrids[gridCall.id].status = "STOPPED"

----------------------------------------------------------------------------
(* Claims about both schedulers and about the three entry points *)

\* C3: the status of a TWAP run or a Grid run that is COMPLETED, STOPPED or
\* ERROR is not ACTIVE after any further step of stop, getStatus or the
\* background loop
C3_NeverBackToActive ==
    [][/\ (TwapStarted /\ Run.status \in TerminalStatus)
            => activeTwap'[TwapId].status # "ACTIVE"
       /\ (GridStarted /\ Grid.status \in TerminalStatus)
            => activeGrids'[GridId].status # "ACTIVE"]_vars

\* a run stopped before its loop left, read by getStatus after the loop wrote
\* its own terminal status over STOPPED
C3_Witness ==
    /\ TwapStarted /\ twapTask.pc = "done" /\ twapTask.stopSeen
    /\ twapCall.op = "status" /\ twapCall.result # <<>>
    /\ twapCall.result[1].status \in TerminalStatus

\* C18: validate_quantity of either manager accepts exactly when the symbol's
\* rules are found and minQty <= qty <= maxQty and (qty - minQty) mod stepSize
\* is 0, and rejects when the symbol is absent or the rules cannot be fetched
C18_QuantityRule ==
    calc.pc = "validated"
        => (calc.result
              <=> /\ calc.symbol \in TradingSymbols
                  /\ calc.fetch = "ok"
                  /\ calc.rules.minQty <= calc.quantity
                  /\ calc.quantity <= calc.rules.maxQty
                  /\ (calc.quantity - calc.rules.minQty) % calc.rules.stepSize = 0)

\* the thread is at the attempt of chunk twapTask.i
InAttempt == twapTask.pc \in {"price", "place"}

C23_OneIntervalBetweenChunks ==
    [][/\ (/\ twapTask.pc \in {"price", "place", "sleep"}
           /\ twapTask'.pc = "check"
           /\ twapTask'.i <= Len(Run.chunks))
            => twapTask.pc = "sleep"
       /\ twapTask'.pc = "sleep" => twapTask'.i < Len(Run.chunks)]_vars

\* the monitor is at a tracked order and the status query answers
MonitorSees(phase) ==
    /\ gridTask.pc = phase
    /\ gridTask.queue # <<>>
    /\ gridTask' # gridTask
    /\ gridTask'.pc # "loop"
SeenPrice == Head(gridTask.queue)[1]
SeenOrder == Head(gridTask.queue)[2]
SeenFilled == exchange[SeenOrder].status = "FILLED"
LevelsAbove(p) == {q \in LevelSet(Grid.grid_levels) : q > p}
LevelsBelow(p) == {q \in LevelSet(Grid.grid_levels) : q < p}
LastTrade(grid) == grid.executed_trades[Len(grid.executed_trades)]

\* C24: a tracked buy seen FILLED at level p leaves buy_orders, adds one BUY
\* trade and is answered by one SELL at the smallest level above p; a tracked
\* sell seen FILLED leaves sell_orders, adds one SELL trade and is answered by
\* one BUY at the largest level below p; with no such level no order is
\* placed; an order seen with another status stays in its map
C24_FillReplacement ==
    [][/\ (MonitorSees("buys") /\ SeenFilled)
            => /\ DictKeys(activeGrids'[GridId].buy_orders)
                      = DictKeys(Grid.buy_orders) \ {SeenPrice}
               /\ activeGrids'[GridId].sell_orders = Grid.sell_orders
               /\ Len(activeGrids'[GridId].executed_trades) = Len(Grid.executed_trades) + 1
               /\ LastTrade(activeGrids'[GridId]).side = "BUY"
               /\ LastTrade(activeGrids'[GridId]).price = SeenPrice
               /\ exchange' = exchange
               /\ IF LevelsAbove(SeenPrice) = {}
                  THEN gridTask'.pc = "buys"
                  ELSE /\ gridTask'.pc = "placeSell"
                       /\ gridTask'.target \in LevelsAbove(SeenPrice)
                       /\ \A q \in LevelsAbove(SeenPrice) : gridTask'.target <= q
       /\ (MonitorSees("sells") /\ SeenFilled)
            => /\ DictKeys(activeGrids'[GridId].sell_orders)
                      = DictKeys(Grid.sell_orders) \ {SeenPrice}
               /\ activeGrids'[GridId].buy_orders = Grid.buy_orders
               /\ Len(activeGrids'[GridId].executed_trades) = Len(Grid.executed_trades) + 1
               /\ LastTrade(activeGrids'[GridId]).side = "SELL"
               /\ LastTrade(activeGrids'[GridId]).price = SeenPrice
               /\ exchange' = exchange
               /\ IF LevelsBelow(SeenPrice) = {}
                  THEN gridTask'.pc = "sells"
                  ELSE /\ gridTask'.pc = "placeBuy"
                       /\ gridTask'.target \in LevelsBelow(SeenPrice)
                       /\ \A q \in LevelsBelow(SeenPrice) : gridTask'.target >= q
       /\ (gridTask.pc = "placeSell" /\ gridTask' # gridTask)
            => \/ exchange' = exchange /\ activeGrids' = activeGrids
               \/ /\ exchange' = Append(exchange, [side |-> "SELL", price |-> gridTask.target,
                                                    status |-> "NEW", updateTime |-> 0])
                  /\ <<gridTask.target, Len(exchange')>>
                         \in {activeGrids'[GridId].sell_orders[i] :
                                 i \in 1..Len(activeGrids'[GridId].sell_orders)}
                  /\ activeGrids'[GridId].buy_orders = Grid.buy_orders
                  /\ activeGrids'[GridId].executed_trades = Grid.executed_trades
       /\ (gridTask.pc = "placeBuy" /\ gridTask' # gridTask)
            => \/ exchange' = exchange /\ activeGrids' = activeGrids
               \/ /\ exchange' = Append(exchange, [side |-> "BUY", price |-> gridTask.target,
                                                    status |-> "NEW", updateTime |-> 0])
                  /\ <<gridTask.target, Len(exchange')>>
                         \in {activeGrids'[GridId].buy_orders[i] :
                                 i \in 1..Len(activeGrids'[GridId].buy_orders)}
                  /\ activeGrids'[GridId].sell_orders = Grid.sell_orders
                  /\ activeGrids'[GridId].executed_trades = Grid.executed_trades
       /\ ((MonitorSees("buys") \/ MonitorSees("sells")) /\ ~SeenFilled)
            => activeGrids' = activeGrids /\ exchange' = exchange]_vars

\* a sell rests at the centre level, where only a replacement puts one, and a
\* sell fill at the top level found a buy level below it
C24_Witness ==
    /\ GridId \in DOMAIN activeGrids
    /\ Len(Grid.grid_levels) = 3
    /\ Grid.center_price \in DictKeys(Grid.sell_orders)
    /\ Len(Grid.executed_trades) = 2
    /\ Grid.executed_trades[1].side = "BUY"
    /\ Grid.executed_trades[2].side = "SELL"
    /\ Grid.center_price \in DictKeys(Grid.buy_orders)

\* place_grid_orders has returned the id of a grid
GridStartReturned == gridCall.op = "start" /\ gridCall.result = GridId
BelowCenter == {p \in LevelSet(Grid.grid_levels) : p < Grid.center_price}
AboveCenter == {p \in LevelSet(Grid.grid_levels) : p > Grid.center_price}
AttemptsOf(side, p) ==
    {i \in 1..Len(gridCall.attempts) : gridCall.attempts[i] = <<side, p>>}
\* the entries of a map of tracked orders are resting orders of that side
TracksResting(orders, side) ==
    \A i \in 1..Len(orders) :
        /\ orders[i][2] \in 1..Len(exchange)
        /\ exchange[orders[i][2]].side = side
        /\ exchange[orders[i][2]].price = orders[i][1]
        /\ exchange[orders[i][2]].status = "NEW"

\* C25: the start attempts one BUY at every level below the centre and one SELL
\* at every level above, none at the centre; afterwards buy_orders and
\* sell_orders hold exactly the levels whose placement succeeded, and the run
\* starts whatever placements failed
C25_InitialPlacement ==
    GridStartReturned =>
        /\ \A p \in BelowCenter : Cardinality(AttemptsOf("BUY", p)) = 1
        /\ \A p \in AboveCenter : Cardinality(AttemptsOf("SELL", p)) = 1
        /\ Len(gridCall.attempts) = Cardinality(BelowCenter) + Cardinality(AboveCenter)
        /\ DictKeys(Grid.buy_orders) = BelowCenter \ gridCall.failed
        /\ DictKeys(Grid.sell_orders) = AboveCenter \ gridCall.failed
        /\ TracksResting(Grid.buy_orders, "BUY")
        /\ TracksResting(Grid.sell_orders, "SELL")
        /\ Len(exchange) = Len(Grid.buy_orders) + Len(Grid.sell_orders)
        /\ Grid.status = "ACTIVE"
        /\ gridTask.pc = "loop"

C25_Witness ==
    /\ GridStartReturned
    /\ Grid.center_price \in LevelSet(Grid.grid_levels)
    /\ gridCall.failed \cap BelowCenter # {}
    /\ Grid.buy_orders = <<>>
    /\ Len(Grid.sell_orders) = 1
    /\ Len(exchange) = 1

\* C26: a grid starts only with a per-order quantity that, rounded down to the
\* step size, is at least minQty, so the quantity of the orders of a run is at
\* least minQty and a multiple of stepSize
C26_QuantityClearsMinimum ==
    GridStartReturned =>
        /\ Grid.order_quantity >= gridCall.args.rules.minQty
        /\ Grid.order_quantity % gridCall.args.rules.stepSize = 0

\* the positions of the monitor thread inside one iteration
MonitorBody == {"buys", "placeSell", "sells", "placeBuy"}

\* C27: no step of an iteration of the monitor, faulty or not, ends the loop
\* or writes the run's status; the loop head starts the next iteration
\* unless the stop flag is set, and only then does the loop exit
C27_MonitorSurvivesFaults ==
    [][/\ (gridTask.pc \in MonitorBody /\ gridTask' # gridTask)
            => /\ gridTask'.pc \in MonitorBody \cup {"loop"}
               /\ activeGrids'[GridId].status = Grid.status
       /\ (gridTask.pc = "loop" /\ gridTask' # gridTask)
            => /\ gridTask'.pc = (IF gridStopFlags[GridId] THEN "exited" ELSE "buys")
               /\ activeGrids'[GridId].status = Grid.status
       /\ gridTask'.pc = "exited" => gridStopFlags'[GridId]]_vars

\* the placement after a buy fill failed and the iteration went on
C27_Witness ==
    /\ GridId \in DOMAIN activeGrids
    /\ Len(Grid.executed_trades) = 1
    /\ Len(exchange) = Len(Grid.buy_orders) + Len(Grid.sell_orders) + 1
    /\ gridTask.pc = "sells"
    /\ Grid.status = "ACTIVE"
    /\ ~gridStopFlags[GridId]

\* the buy trades of a trade list below the price s, by position
LowerBuys(trades, s) ==
    {i \in 1..Len(trades) : trades[i].side = "BUY" /\ trades[i].price < s}

\* C29: a sell fill at s with quantity q raises total_profit by (s - b) * q, b
\* the price of the most recent buy trade already recorded below s, and leaves
\* it alone when there is none; no other step, a buy fill among them, changes
\* total_profit
C29_ProfitAccounting ==
    [][(GridId \in DOMAIN activeGrids /\ GridId \in DOMAIN activeGrids')
        => LET old  == activeGrids[GridId].executed_trades
               new  == activeGrids'[GridId].executed_trades
               gain == activeGrids'[GridId].total_profit - activeGrids[GridId].total_profit
               sold == new[Len(new)]
               buys == LowerBuys(old, sold.price)
           IN  IF Len(new) = Len(old) + 1 /\ sold.side = "SELL" /\ buys # {}
               THEN \E i \in buys :
                       /\ \A j \in buys : old[j].time <= old[i].time
                       /\ gain = (sold.price - old[i].price) * sold.quantity
               ELSE gain = 0]_vars

\* a sell fill after two buy fills at different prices below it was accounted
C29_Witness ==
    /\ GridId \in DOMAIN activeGrids
    /\ Len(Grid.executed_trades) = 3
    /\ Grid.executed_trades[3].side = "SELL"
    /\ Cardinality({Grid.executed_trades[i].price
                       : i \in LowerBuys(Grid.executed_trades, Grid.executed_trades[3].price)}) = 2
    /\ Grid.total_profit > 0

\* C30: before a chunk PRICE_DEVIATION is emitted exactly when
\* maxPriceDeviation > 0 and |currentPrice - initialPrice| / initialPrice >
\* maxPriceDeviation
C30_DeviationEvent ==
    calc.pc = "checked"
        => (calc.emitted <=>
               /\ calc.maxDev > 0
               /\ (IF calc.current >= calc.initial THEN calc.current - calc.initial
                                                   ELSE calc.initial - calc.current) * 10
                     > calc.maxDev * calc.initial)

\* the number of tenths nearest to the float a
NearestTenth(a) ==
    IF a.e >= 0 THEN a.m * 2^a.e * 10 ELSE RoundHalfEven(a.m * 10, 2^(-a.e))

\* C28: the levels are the points min + i * (max - min) / (gridCount - 1) of
\* [center * (1 - percent), center * (1 + percent)], each rounded down to a
\* multiple of tickSize, without duplicates and in increasing order; they are
\* compared in tenths of a unit
C28_GridLevels ==
    calc.pc = "levels"
        => [i \in 1..Len(calc.levels) |-> NearestTenth(calc.levels[i])]
              = CalculateGridLevels(10 * calc.center, 10 * calc.percent,
                                    calc.gridCount, calc.tick)

\* C21: once place_oco_order has returned the pair, the two orders are never
\* both FILLED: when one is executed the other is cancelled
C21_OneCancelsTheOther ==
    (ocoCall.op = "place" /\ ocoCall.result = "PAIR")
        => ~(exchange[1].status = "FILLED" /\ exchange[2].status = "FILLED")

\* get_oco_status answered with a classification
OcoStatusReturned == ocoCall.op = "status" /\ ocoCall.result # <<>>
OcoStatusResult == ocoCall.result[1].oco_status
OcoOpen == {"NEW", "PARTIALLY_FILLED"}

\* C19: the overall status is TAKE_PROFIT_FILLED when the take-profit order is
\* FILLED; otherwise STOP_LOSS_FILLED when the stop-loss order is FILLED;
\* otherwise BOTH_CANCELED when both are CANCELED; otherwise ACTIVE when both
\* are NEW or PARTIALLY_FILLED; otherwise UNKNOWN, for every pair of statuses
C19_OcoStatusTable ==
    OcoStatusReturned =>
        LET tp == ocoCall.tp
            sl == ocoCall.sl
            noFill == tp # "FILLED" /\ sl # "FILLED"
            bothCanceled == tp = "CANCELED" /\ sl = "CANCELED"
            bothOpen == tp \in OcoOpen /\ sl \in OcoOpen
        IN  /\ tp = "FILLED" => OcoStatusResult = "TAKE_PROFIT_FILLED"
            /\ (tp # "FILLED" /\ sl = "FILLED") => OcoStatusResult = "STOP_LOSS_FILLED"
            /\ (noFill /\ bothCanceled) => OcoStatusResult = "BOTH_CANCELED"
            /\ (noFill /\ bothOpen) => OcoStatusResult = "ACTIVE"
            /\ (noFill /\ ~bothCanceled /\ ~bothOpen) => OcoStatusResult = "UNKNOWN"

C19_Witness ==
    /\ OcoStatusReturned
    /\ ocoCall.tp = "FILLED" /\ ocoCall.sl = "FILLED"
    /\ OcoStatusResult = "TAKE_PROFIT_FILLED"

\* a step in which stop or getStatus returns for an id the manager never issued
TwapUnknownIdReturns ==
    /\ twapCall' # twapCall
    /\ twapCall'.op \in {"stop", "status"}
    /\ twapCall'.id \notin DOMAIN activeTwap
GridUnknownIdReturns ==
    /\ gridCall' # gridCall
    /\ gridCall'.op \in {"stop", "status"}
    /\ gridCall'.id \notin DOMAIN activeGrids
\* a step in which getStatus returns for a run of the manager
TwapStatusReturns ==
    /\ twapCall' # twapCall
    /\ twapCall'.op = "status"
    /\ twapCall'.id \in DOMAIN activeTwap
GridStatusReturns ==
    /\ gridCall' # gridCall
    /\ gridCall'.op = "status"
    /\ gridCall'.id \in DOMAIN activeGrids
\* the record r without its callback
WithoutCallback(r) == [f \in DOMAIN r \ {"callback"} |-> r[f]]

\* C20: stop on an unknown id returns false and getStatus on it returns
\* nothing, with every record, stop flag and the gateway left as they were;
\* getStatus on a known id returns the record's fields without the callback
\* and changes nothing
C20_UnknownIdsHarmless ==
    [][/\ TwapUnknownIdReturns
            => /\ twapCall'.result = (IF twapCall'.op = "stop" THEN FALSE ELSE <<>>)
               /\ UNCHANGED <<activeTwap, twapStopFlags, twapTask, twapGateway, twapEvents>>
       /\ GridUnknownIdReturns
            => /\ gridCall'.result = (IF gridCall'.op = "stop" THEN FALSE ELSE <<>>)
               /\ UNCHANGED <<activeGrids, gridStopFlags, gridTask, exchange, gridUpdate>>
       /\ TwapStatusReturns
            => /\ twapCall'.result = <<WithoutCallback(activeTwap[twapCall'.id])>>
               /\ UNCHANGED <<activeTwap, twapStopFlags, twapTask, twapGateway, twapEvents>>
       /\ GridStatusReturns
            => /\ gridCall'.result = <<WithoutCallback(activeGrids[gridCall'.id])>>
               /\ UNCHANGED <<activeGrids, gridStopFlags, gridTask, exchange, gridUpdate>>]_vars

C20_Witness ==
    /\ TwapStarted
    /\ twapCall.op = "stop"
    /\ twapCall.id \notin DOMAIN activeTwap
    /\ twapCall.result = FALSE
    /\ twapStopFlags = (TwapId :> FALSE)
    /\ twapGateway # <<>>

\* the thread of the first run ended on a failed reference price
ReferencePriceFailed == twapTask.pc = "done" /\ twapTask.initialPrice = 0

\* C17: when the reference price fetch at the start of a run fails, the step
\* sets that run's status to ERROR and leaves the stop flags, the gateway and
\* the record of every other run as they were, and no chunk order is placed
\* for the run before or after it
C17_ReferencePriceFailureIsolated ==
    [][/\ (twapTask.pc = "init" /\ twapTask'.pc = "done")
            => /\ activeTwap'[TwapId].status = "ERROR"
               /\ DOMAIN activeTwap' = DOMAIN activeTwap
               /\ \A id \in DOMAIN activeTwap \ {TwapId} : activeTwap'[id] = activeTwap[id]
               /\ twapStopFlags' = twapStopFlags
               /\ twapGateway' = twapGateway
       /\ ReferencePriceFailed => twapGateway = <<>> /\ twapGateway' = <<>>]_vars

C17_Witness ==
    /\ ReferencePriceFailed
    /\ TwapIdAt(2) \in DOMAIN activeTwap
    /\ activeTwap[TwapIdAt(2)].status = "ACTIVE"
    /\ Run.status = "ERROR"
    /\ Run.orders = <<>>

\* a step in which a call of start returns a run id
TwapStartReturns ==
    twapCall' # twapCall /\ twapCall'.op = "start" /\ twapCall'.result # "None"
GridStartReturns ==
    gridCall' # gridCall /\ gridCall'.op = "start" /\ gridCall'.result # "None"

\* C16: the id a successful start returns differs from the id of every earlier
\* run of the manager, so no record and no stop flag of an earlier run is
\* overwritten, also for two starts within one epoch second
C16_FreshRunIds ==
    [][/\ TwapStartReturns
            => /\ twapCall'.result \notin DOMAIN activeTwap
               /\ \A id \in DOMAIN activeTwap : activeTwap'[id] = activeTwap[id]
       /\ GridStartReturns
            => /\ gridCall'.result \notin DOMAIN activeGrids
               /\ \A id \in DOMAIN activeGrids : activeGrids'[id] = activeGrids[id]]_vars

\* a step in which a call of stop or getStatus returns to the caller
TwapCallerReturns == twapCall' # twapCall /\ twapCall'.op \in {"stop", "status"}
GridCallerReturns == gridCall' # gridCall /\ gridCall'.op \in {"stop", "status"}

\* C15: stop and getStatus write no field of a run's record; of the state of a
\* run they change the stop flag only
C15_CallersWriteNoRecord ==
    [][/\ TwapCallerReturns => activeTwap' = activeTwap
       /\ GridCallerReturns => activeGrids' = activeGrids]_vars

\* the validation checks the claim lists, on the arguments of each entry point
OcoFailsValidation(a) ==
    \/ a.symbol \notin TradingSymbols
    \/ a.side \notin {"BUY", "SELL"}
    \/ a.quantity <= 0 \/ a.quantity < a.rules.minQty \/ a.quantity > a.rules.maxQty
    \/ (a.quantity - a.rules.minQty) % a.rules.stepSize # 0
    \/ \E p \in {a.takeProfit, a.stopLoss} :
          \/ p < PriceRules.minPrice \/ p > PriceRules.maxPrice
          \/ (p - PriceRules.minPrice) % PriceRules.tickSize # 0
TwapFailsValidation(a) ==
    \/ a.symbol \notin TradingSymbols
    \/ a.side \notin {"BUY", "SELL"}
    \/ a.total < a.rules.minQty \/ a.total > a.rules.maxQty
    \/ (a.total - a.rules.minQty) % a.rules.stepSize # 0
    \/ a.duration <= 0
    \/ a.orderType \notin {"MARKET", "LIMIT"}
    \/ a.orderType = "LIMIT" /\ a.limitPrice = 0
GridFailsValidation(a, current) ==
    \/ a.symbol \notin TradingSymbols
    \/ a.percent <= 0 \/ a.percent >= 100
    \/ a.gridCount < 2
    \/ a.orderQuantity # 0 /\ a.orderQuantity < a.rules.minQty
    \/ a.orderQuantity = 0 /\ a.totalInvestment = 0
    \/ /\ a.orderQuantity = 0
       /\ a.totalInvestment <
             a.rules.minQty * a.gridCount * (IF a.center = 0 THEN current ELSE a.center)

\* C9: a call of place_oco_order, place_twap_order or place_grid_orders that
\* fails a validation check returns None, and has placed no order, created no
\* record and no stop flag, and started no thread
C9_ValidationBeforeSideEffects ==
    /\ (ocoCall.op = "place" /\ OcoFailsValidation(ocoCall.args))
          => ocoCall.result = "None" /\ ocoLog = <<>>
    /\ (twapCall.op = "start" /\ TwapFailsValidation(twapCall.args))
          => /\ twapCall.result = "None"
             /\ twapGateway = <<>> /\ activeTwap = <<>> /\ twapStopFlags = <<>>
             /\ twapTask.pc = "none"
    /\ (gridCall.op = "start" /\ GridFailsValidation(gridCall.args, gridCall.current))
          => /\ gridCall.result = "None"
             /\ exchange = <<>> /\ activeGrids = <<>> /\ gridStopFlags = <<>>
             /\ gridTask.pc = "none"

\* a TWAP start refused for its duration alone
C9_Witness ==
    /\ twapCall.op = "start" /\ twapCall.result = "None"
    /\ twapCall.args.duration = 0
    /\ TwapInputsValidAnyDuration(twapCall.args)
    /\ activeTwap = <<>> /\ twapTask.pc = "none"

----------------------------------------------------------------------------
(* Claims about the two phases of the OCO placement and the joint cancel *)

\* the placements of place_oco_order, by position in the gateway log
TakeProfitCalls ==
    {i \in 1..Len(ocoLog) : /\ ocoLog[i].call = "create" /\ ocoLog[i].type = "LIMIT"
                            /\ ocoLog[i].price = ocoCall.args.takeProfit
                            /\ ocoLog[i].reduceOnly}
StopLossCalls ==
    {i \in 1..Len(ocoLog) : /\ ocoLog[i].call = "create" /\ ocoLog[i].type = "STOP_MARKET"
                            /\ ocoLog[i].price = ocoCall.args.stopLoss
                            /\ ocoLog[i].reduceOnly}
Succeeded(calls) == \E i \in calls : ocoLog[i].answer = "ok"

\* C31: place_oco_order sends the reduce-only LIMIT order at the take-profit
\* price before the reduce-only STOP_MARKET order at the stop-loss price; when
\* the first placement fails there is no second placement and no cancel; the
\* pair is returned exactly when both placements succeeded
C31_TwoPhasePlacement ==
    OcoPlaced =>
        /\ \A i \in 1..Len(ocoLog) :
              ocoLog[i].call = "create" => i \in TakeProfitCalls \cup StopLossCalls
        /\ \A j \in StopLossCalls : \E i \in TakeProfitCalls : i < j
        /\ ~Succeeded(TakeProfitCalls) => (StopLossCalls = {} /\ CancelCalls = {})
        /\ ocoCall.result = "PAIR"
              <=> (Succeeded(TakeProfitCalls) /\ Succeeded(StopLossCalls))

\* the take-profit placement was sent and rejected
C31_Witness ==
    /\ OcoPlaced /\ TakeProfitCalls = {1}
    /\ ocoLog[1].answer = "api" /\ ocoCall.result = "None"

\* the cancel calls of cancel_oco_order for an order, by position in the log
CancelsOf(order) ==
    {i \in 1..Len(ocoLog) : ocoLog[i].call = "cancel" /\ ocoLog[i].orderId = order}

\* C32: cancel_oco_order attempts the cancel of both orders, the stop-loss one
\* also after a failed take-profit cancel, and returns true exactly when both
\* cancel calls succeeded
C32_JointCancel ==
    ocoCall.op = "cancelled" =>
        /\ CancelsOf(1) # {} /\ CancelsOf(2) # {}
        /\ ocoCall.result <=> \A i \in CancelsOf(1) \cup CancelsOf(2) : ocoLog[i].answer = "ok"

\* the take-profit cancel failed and the stop-loss cancel went through
C32_Witness ==
    /\ ocoCall.op = "cancelled" /\ ~ocoCall.result
    /\ \E i \in CancelsOf(1) : ocoLog[i].answer # "ok"
    /\ \E i \in CancelsOf(2) : ocoLog[i].answer = "ok"
    /\ exchange[2].status = "CANCELED"

----------------------------------------------------------------------------
(* Claims about the bookkeeping of the runs *)

\* C33: in every state of a TWAP run, with a gateway that fills no more than
\* the quantity of an order, executed_quantity and the sum of the quantities of
\* the chunk orders placed so far are at most total_quantity, also when
\* total_quantity / num_orders is below minQty
C33_NeverOverExecutes ==
    TwapId \in DOMAIN activeTwap
        => /\ Run.executed_quantity <= Run.total_quantity
           /\ SumSeq(twapGateway) <= Run.total_quantity

\* the order ids a dict of the run holds
DictValues(d) == {d[i][2] : i \in 1..Len(d)}

\* C34: in every state of a Grid run each order the run placed that is still
\* resting at the exchange is the value stored under its price in buy_orders
\* (a BUY) or sell_orders (a SELL): no placement overwrites the entry of an
\* order that is still resting
C34_TracksEveryRestingOrder ==
    GridStarted =>
        \A id \in 1..Len(exchange) :
            exchange[id].status = "NEW" =>
                IF exchange[id].side = "BUY"
                THEN \E i \in 1..Len(Grid.buy_orders) :
                        Grid.buy_orders[i] = <<exchange[id].price, id>>
                ELSE \E i \in 1..Len(Grid.sell_orders) :
                        Grid.sell_orders[i] = <<exchange[id].price, id>>

\* a stop call on the run returned True and each of its cancel calls went through
StoppedCleanly ==
    /\ gridCall.op = "stop" /\ gridCall.id = GridId /\ gridCall.result
    /\ \A i \in 1..Len(gridCall.cancelled) :
          exchange[gridCall.cancelled[i]].status = "CANCELED"

\* C35: once stop_grid has returned True with every cancel call succeeding and
\* the monitoring loop has exited, no order of the run rests at the exchange,
\* however the stop call interleaved with an iteration of the loop
C35_StopLeavesNothingResting ==
    (GridStarted /\ StoppedCleanly /\ gridTask.pc = "exited")
        => \A id \in 1..Len(exchange) : exchange[id].status # "NEW"

\* the positions of the loop from which it reaches an order placement only
\* through a check of the stop flag
BehindCheck == BeforeCheck \cup {"init"}

\* C36: once stop_twap_order has set the flag of a run, which it does before it
\* returns True, the loop places at most one further chunk order, the one whose
\* check of the flag had already passed: a placement brings the loop behind the
\* next check, and from there it places nothing
C36_BoundedOverrun ==
    [][(TwapStarted /\ twapStopFlags[TwapId])
        => /\ twapStopFlags'[TwapId]
           /\ twapGateway' # twapGateway
                 => /\ Len(twapGateway') = Len(twapGateway) + 1
                    /\ twapTask.pc = "place"
                    /\ twapTask'.pc \in BehindCheck
           /\ twapTask.pc \in BehindCheck
                 => (twapTask'.pc \in BehindCheck /\ twapGateway' = twapGateway)]_vars

\* stop_twap_order has returned True while the loop is about to place a chunk
\* after an earlier one
C36_Witness ==
    /\ TwapStarted /\ twapStopFlags[TwapId]
    /\ twapCall.op = "stop" /\ twapCall.result
    /\ twapTask.pc = "place" /\ twapTask.i = 2 /\ Len(twapGateway) = 1

\* C37: when the thread of a run keeps being scheduled and every gateway call
\* returns, the status of every started run is eventually COMPLETED, STOPPED or
\* ERROR, and the loop places at most len(chunks) orders
C37_EveryRunTerminates ==
    /\ [](TwapStarted => Len(twapGateway) <= Len(Run.chunks))
    /\ TwapStarted ~> (twapTask.pc = "done" /\ Run.status # "ACTIVE")

\* a run of three chunks whose thread has ended after placing all of them
C37_Witness ==
    /\ TwapStarted /\ twapTask.pc = "done" /\ Run.status # "ACTIVE"
    /\ Len(Run.chunks) = 3 /\ Len(twapGateway) = 3

\* C38: once the stop flag of a Grid run is set the monitoring loop starts no
\* new iteration and, when its thread keeps being scheduled and every gateway
\* call returns, exits; after the exit the thread places no order and delivers
\* no UPDATE; while the flag is unset the loop has not exited and the status is
\* ACTIVE
C38_LoopStopsAfterStop ==
    /\ [][(GridStarted /\ gridStopFlags[GridId])
            => /\ gridStopFlags'[GridId]
               /\ ~(gridTask.pc = "loop" /\ gridTask'.pc \in MonitorBody)]_vars
    /\ (GridStarted /\ gridStopFlags[GridId]) ~> gridTask.pc = "exited"
    /\ [][gridTask.pc = "exited"
            => /\ gridTask' = gridTask
               /\ gridUpdate' = gridUpdate
               /\ Len(exchange') = Len(exchange)]_vars
    /\ []((GridStarted /\ ~gridStopFlags[GridId])
            => (gridTask.pc # "exited" /\ Grid.status = "ACTIVE"))

\* the loop has exited after an UPDATE and a stop call that returned
C38_Witness ==
    /\ GridStarted /\ gridStopFlags[GridId] /\ gridTask.pc = "exited"
    /\ gridCall.op = "stop" /\ Grid.status = "STOPPED"
    /\ gridUpdate # <<>> /\ Grid.executed_trades # <<>>

\* the order ids of the recorded trades of the run
TradeIds == {Grid.executed_trades[i].order_id : i \in 1..Len(Grid.executed_trades)}

\* C39: in every Grid run executed_trades changes only by an append at its end,
\* no order id is recorded twice, and total_profit is never negative and never
\* decreases
C39_MonotoneBookkeeping ==
    /\ [][GridStarted
            => /\ GridId \in DOMAIN activeGrids'
               /\ Len(activeGrids'[GridId].executed_trades) \in
                     {Len(Grid.executed_trades), Len(Grid.executed_trades) + 1}
               /\ SubSeq(activeGrids'[GridId].executed_trades, 1, Len(Grid.executed_trades))
                     = Grid.executed_trades
               /\ activeGrids'[GridId].total_profit >= Grid.total_profit]_vars
    /\ [](GridStarted
            => /\ Cardinality(TradeIds) = Len(Grid.executed_trades)
               /\ Grid.total_profit >= 0)

\* a buy, a sell with a profit and another buy were recorded
C39_Witness ==
    /\ GridStarted /\ Len(Grid.executed_trades) = 3
    /\ Grid.executed_trades[1].side = "BUY" /\ Grid.executed_trades[2].side = "SELL"
    /\ Grid.executed_trades[3].side = "BUY"
    /\ Grid.total_profit > 0

====
